---- MODULE Spec2Model ----
(***************************************************************************)
(* EngineUtilities numeric kernel: EngineMath scalar functions, CVector2/3/4, *)
(* Matrix2x2/3x3/4x4 and Quaternion.                                       *)
(*                                                                         *)
(* A C++ `float` is modelled by a number of one of three kinds:            *)
(*   [k |-> "f", m, e]  an IEEE-754 binary32 value m * 2^e, |m| < 2^24,    *)
(*                      e >= EMin, rounded to nearest-even by every        *)
(*                      operation (gradual underflow included);            *)
(*   [k |-> "q", n, d]  an exact rational n/d, the "exact arithmetic"      *)
(*                      reading of the same code; float literals of the    *)
(*                      source (0.f, 1.f, 2) are of this kind and are      *)
(*                      converted when they meet a binary32 operand;       *)
(*   [k |-> "nan"]      a non-finite value (the infinity or NaN that a     *)
(*                      division by zero produces), absorbing.             *)
(* Every function of the source is translated once, over the generic       *)
(* operations Add, Sub, Mul, Div, Eq, Lt, Le.                              *)
(***************************************************************************)
EXTENDS Integers, Sequences, FiniteSets, TLC

(***************************************************************************)
(* binary32 arithmetic                                                     *)
(***************************************************************************)
\* F applied to the value of val, which is computed once
Let(val, F(_)) == CHOOSE r \in {F(y) : y \in {val}} : TRUE

\* F applied to the values of a and b, each computed once
Let2(a, b, F(_, _)) == CHOOSE r \in {F(x, y) : x \in {a}, y \in {b}} : TRUE

MantBits == 24

EMin == -149

RECURSIVE Pow2(_)
Pow2(k) == IF k <= 0 THEN 1 ELSE 2 * Pow2(k - 1)

RECURSIVE BitLen(_)
BitLen(n) == IF n = 0 THEN 0 ELSE 1 + BitLen(n \div 2)

IAbs(n) == IF n < 0 THEN -n ELSE n

ISign(n) == IF n < 0 THEN -1 ELSE 1

NaN == [k |-> "nan"]

FZero == [k |-> "f", m |-> 0, e |-> 0]

\* The binary32 value nearest to sgn * (mag + sticky) * 2^e, ties to even;
\* 0 < mag < 2^31, sticky says that nonzero bits lie below the last bit of mag;
\* sh is the number of low bits of mag to drop, p is 2^(sh - 1).
FRoundShift(sgn, mag, e, sticky, sh, p) ==
    Let((mag \div p) \div 2, LAMBDA quo :
    Let(mag - (quo * p * 2), LAMBDA r :
    Let(IF r > p \/ (r = p /\ (sticky \/ (quo % 2) = 1)) THEN quo + 1 ELSE quo,
        LAMBDA q1 :
            IF q1 = 0 THEN FZero
            ELSE IF q1 = Pow2(MantBits)
            THEN [k |-> "f", m |-> sgn * Pow2(MantBits - 1), e |-> e + sh + 1]
            ELSE [k |-> "f", m |-> sgn * q1, e |-> e + sh])))

\* The binary32 value nearest to sgn * (mag + sticky) * 2^e, ties to even.
FRound(sgn, mag, e, sticky) ==
    IF mag = 0 THEN FZero
    ELSE Let(BitLen(mag), LAMBDA nb :
         Let(IF nb - MantBits > EMin - e THEN nb - MantBits ELSE EMin - e,
             LAMBDA sh :
                 IF sh <= 0
                 THEN \* exact: shift the mantissa up as far as the exponent allows
                      [k |-> "f", m |-> sgn * mag * Pow2(-sh), e |-> e + sh]
                 ELSE IF sh > nb + 1 THEN FZero
                 ELSE FRoundShift(sgn, mag, e, sticky, sh, Pow2(sh - 1))))

FromInt(n) == FRound(ISign(n), IAbs(n), 0, FALSE)

\* the mantissa of a nonzero value shifted up to MantBits bits (exponent may pass EMin)
FExpand(a) ==
    Let(MantBits - BitLen(IAbs(a.m)), LAMBDA up :
        [m |-> IAbs(a.m) * Pow2(up), e |-> a.e - up])

FNeg(a) == [k |-> "f", m |-> -a.m, e |-> a.e]

\* x.m * y.m = (top * 2^24 + rem) for two 24-bit mantissas, by 12-bit halves
FMulWide(xm, ym) ==
    Let2(((xm \div 4096) * (ym % 4096)) + ((xm % 4096) * (ym \div 4096)),
         (xm % 4096) * (ym % 4096),
         LAMBDA mid, lo :
             Let(mid + (lo \div 4096), LAMBDA t :
                 [top |-> ((xm \div 4096) * (ym \div 4096)) + (t \div 4096),
                  rem |-> ((t % 4096) * 4096) + (lo % 4096)]))

FMul(a, b) ==
    IF a.m = 0 \/ b.m = 0 THEN FZero
    ELSE Let2(FExpand(a), FExpand(b), LAMBDA x, y :
         Let(FMulWide(x.m, y.m), LAMBDA w :
             FRound(ISign(a.m) * ISign(b.m),
                    (w.top * 4) + (w.rem \div Pow2(22)),
                    x.e + y.e + 22,
                    (w.rem % Pow2(22)) # 0)))

RECURSIVE FLongDiv(_, _, _, _)
FLongDiv(r, d, quo, steps) ==
    IF steps = 0 THEN [quo |-> quo, rem |-> r]
    ELSE IF 2 * r >= d THEN FLongDiv(2 * r - d, d, 2 * quo + 1, steps - 1)
         ELSE FLongDiv(2 * r, d, 2 * quo, steps - 1)

FDiv(a, b) ==
    IF b.m = 0 THEN NaN
    ELSE IF a.m = 0 THEN FZero
    ELSE Let2(FExpand(a), FExpand(b), LAMBDA x, y :
         Let(FLongDiv(x.m % y.m, y.m, x.m \div y.m, 26), LAMBDA ld :
             FRound(ISign(a.m) * ISign(b.m), ld.quo, x.e - y.e - 26, ld.rem # 0)))

GuardBits == 5

\* hi + lo for hi.e - lo.e = d > GuardBits: lo is cut to GuardBits bits below
\* hi and a sticky bit, p is the weight of the part of lo that is cut
FAddFar(hi, lo, p) ==
    Let2(IAbs(lo.m) \div p, (IAbs(lo.m) % p) # 0, LAMBDA lq, st :
        FRound(ISign(hi.m),
               IF ISign(hi.m) = ISign(lo.m)
               THEN (IAbs(hi.m) * Pow2(GuardBits)) + lq
               ELSE IF st THEN (IAbs(hi.m) * Pow2(GuardBits)) - lq - 1
                    ELSE (IAbs(hi.m) * Pow2(GuardBits)) - lq,
               hi.e - GuardBits,
               st))

FAdd(a, b) ==
    IF a.m = 0 THEN b
    ELSE IF b.m = 0 THEN a
    ELSE Let2(IF a.e >= b.e THEN a ELSE b, IF a.e >= b.e THEN b ELSE a,
              LAMBDA hi, lo :
                  IF hi.e - lo.e <= GuardBits
                  THEN Let((hi.m * Pow2(hi.e - lo.e)) + lo.m, LAMBDA s :
                           FRound(ISign(s), IAbs(s), lo.e, FALSE))
                  ELSE FAddFar(hi, lo,
                               IF hi.e - lo.e - GuardBits > MantBits
                               THEN Pow2(MantBits)
                               ELSE Pow2(hi.e - lo.e - GuardBits)))

(***************************************************************************)
(* exact rational arithmetic                                               *)
(***************************************************************************)
RECURSIVE Gcd(_, _)
Gcd(a, b) == IF b = 0 THEN a ELSE Gcd(b, a % b)

QNorm(n, d) ==
    Let(Gcd(IAbs(n), IAbs(d)), LAMBDA g :
        [k |-> "q", n |-> ISign(d) * (n \div g), d |-> IAbs(d) \div g])

QAdd(a, b) == QNorm((a.n * b.d) + (b.n * a.d), a.d * b.d)

QMul(a, b) == QNorm(a.n * b.n, a.d * b.d)

QDiv(a, b) == IF b.n = 0 THEN NaN ELSE QNorm(a.n * b.d, a.d * b.n)

\* a float literal of the source with an integer value (0.f, 1.f, 2, 10)
Lit(n) == [k |-> "q", n |-> n, d |-> 1]

(***************************************************************************)
(* the operations of `float`, over the three kinds of number               *)
(***************************************************************************)
IsNaN(a) == a.k = "nan"

\* float conversion of an exact value
ToF(a) == IF a.k = "q" THEN FDiv(FromInt(a.n), FromInt(a.d)) ELSE a

Neg(a) ==
    IF IsNaN(a) THEN NaN
    ELSE IF a.k = "q" THEN [k |-> "q", n |-> -a.n, d |-> a.d]
    ELSE FNeg(a)

Add(a, b) ==
    Let2(a, b, LAMBDA x, y :
        IF IsNaN(x) \/ IsNaN(y) THEN NaN
        ELSE IF x.k = "q" /\ y.k = "q" THEN QAdd(x, y)
        ELSE FAdd(ToF(x), ToF(y)))

Sub(a, b) == Add(a, Neg(b))

Mul(a, b) ==
    Let2(a, b, LAMBDA x, y :
        IF IsNaN(x) \/ IsNaN(y) THEN NaN
        ELSE IF x.k = "q" /\ y.k = "q" THEN QMul(x, y)
        ELSE FMul(ToF(x), ToF(y)))

Div(a, b) ==
    Let2(a, b, LAMBDA x, y :
        IF IsNaN(x) \/ IsNaN(y) THEN NaN
        ELSE IF x.k = "q" /\ y.k = "q" THEN QDiv(x, y)
        ELSE FDiv(ToF(x), ToF(y)))

\* the sign of a finite number: -1, 0 or 1
Sgn(a) ==
    LET t == IF a.k = "q" THEN a.n ELSE a.m
    IN  IF t < 0 THEN -1 ELSE IF t > 0 THEN 1 ELSE 0

\* a == b
Eq(a, b) == ~IsNaN(a) /\ ~IsNaN(b) /\ Sgn(Sub(a, b)) = 0

\* a < b
Lt(a, b) == ~IsNaN(a) /\ ~IsNaN(b) /\ Sgn(Sub(a, b)) < 0

\* a <= b
Le(a, b) == ~IsNaN(a) /\ ~IsNaN(b) /\ Sgn(Sub(a, b)) <= 0

Abs(a) == IF ~IsNaN(a) /\ Sgn(a) < 0 THEN Neg(a) ELSE a

(***************************************************************************)
(* EngineMath                                                              *)
(***************************************************************************)
square(number) == Mul(number, number)

SqrtIterations == 10

\* sqrtRejects with the test number < 0
sqrtRejects_strict(number) == Lt(number, Lit(0))

\* the guard of the early return of sqrt
sqrtRejects(number) == Le(number, Lit(0))

\* the seed of the iteration; sqrt takes its argument as a float
sqrtSeed(number) == Div(ToF(number), Lit(2))

\* one pass of the loop body of sqrt
sqrtStep(xi, number) ==
    Sub(xi, Div(Sub(square(xi), ToF(number)), Mul(Lit(2), xi)))

RECURSIVE sqrtLoop(_, _, _)
sqrtLoop(xi, number, i) ==
    IF i < SqrtIterations
    THEN Let(sqrtStep(xi, number), LAMBDA next : sqrtLoop(next, number, i + 1))
    ELSE xi

sqrt(number) ==
    Let(number, LAMBDA n : IF sqrtRejects(n) THEN Lit(0)
                           ELSE sqrtLoop(sqrtSeed(n), n, 0))

(***************************************************************************)
(* state                                                                   *)
(***************************************************************************)
VARIABLES
    number,   \* sqrt: the argument
    xi,       \* sqrt: the local xi
    i,        \* sqrt: the loop counter, the number of passes made
    ret,      \* sqrt: the returned value
    pc,       \* sqrt: "entry", "loop" or "done" ("idle": no call)
    v,        \* the vector object (CVector2/3/4 by its length): <<x, y[, z[, w]]>>
    vpre,     \* the vector object before the last operation
    vret,     \* the value the last vector operation returned
    vop,      \* the last vector operation
    mat,      \* the matrix object (Matrix2x2/3x3/4x4 by its size), rows of entries
    mpre,     \* the matrix object before the last operation
    mret,     \* the value the last matrix operation returned
    mop,      \* the last matrix operation
    q,        \* the Quaternion object: <<x, y, z, w>>
    qpre,     \* the Quaternion object before the last operation
    qret,     \* the value the last Quaternion operation returned
    qop,      \* the last Quaternion operation
    operand,  \* the object passed by reference to the last operation
    factor,   \* the float passed by value to the last operation
    argpre,   \* the object passed by reference, before the last operation
    aliased,  \* the object passed by reference was the receiver itself
    calls,    \* the number of operations made on the objects
    fn,       \* EngineMath call: the function called ("idle": no call)
    args,     \* EngineMath call: its arguments
    loc,      \* EngineMath call: its locals
    fpc,      \* EngineMath call: "entry", "loop" or "done"
    fret      \* EngineMath call: the returned value

sqrtVars == <<number, xi, i, ret, pc>>

vecVars == <<v, vpre, vret, vop>>

matVars == <<mat, mpre, mret, mop>>

quatVars == <<q, qpre, qret, qop>>

argVars == <<operand, factor, argpre, aliased, calls>>

callVars == <<fn, args, loc, fpc, fret>>

notSqrtVars == <<vecVars, matVars, quatVars, argVars, callVars>>

notVecVars == <<sqrtVars, matVars, quatVars, argVars, callVars>>

notMatVars == <<sqrtVars, vecVars, quatVars, argVars, callVars>>

notQuatVars == <<sqrtVars, vecVars, matVars, argVars, callVars>>

vars == <<number, xi, i, ret, pc, v, vpre, vret, vop,
          mat, mpre, mret, mop, q, qpre, qret, qop,
          operand, factor, argpre, aliased, calls, fn, args, loc, fpc, fret>>

(***************************************************************************)
(* the call sqrt(number), one action per step                              *)
(***************************************************************************)
MaxDecade == 6

MinDecade == 3

MaxInt == 9

RECURSIVE Pow10(_)
Pow10(k) == IF k <= 0 THEN 1 ELSE 10 * Pow10(k - 1)

SqrtPositives ==
    {FromInt(Pow10(k)) : k \in 0..MaxDecade}
        \cup {FDiv(FromInt(1), FromInt(Pow10(k))) : k \in 1..MinDecade}
        \cup {FromInt(n) : n \in 2..MaxInt}

SqrtInputs == SqrtPositives \cup {FZero} \cup {FNeg(x) : x \in SqrtPositives}

MatIdle ==
    /\ mat = <<>>
    /\ mpre = <<>>
    /\ mret = <<>>
    /\ mop = "idle"

QuatIdle ==
    /\ q = <<>>
    /\ qpre = <<>>
    /\ qret = <<>>
    /\ qop = "idle"

VecIdle ==
    /\ v = <<>>
    /\ vpre = <<>>
    /\ vret = <<>>
    /\ vop = "idle"

\* no operation made yet
FrameIdle ==
    /\ argpre = <<>>
    /\ aliased = FALSE
    /\ calls = 0

\* no argument
ArgIdle ==
    /\ operand = <<>>
    /\ factor = FZero
    /\ FrameIdle

CallIdle ==
    /\ fn = "idle"
    /\ args = <<>>
    /\ loc = <<>>
    /\ fpc = "idle"
    /\ fret = FZero

SqrtIdle ==
    /\ number = FZero
    /\ xi = FZero
    /\ i = 0
    /\ ret = FZero
    /\ pc = "idle"

SqrtInit ==
    /\ number \in SqrtInputs
    /\ xi = FZero
    /\ i = 0
    /\ ret = FZero
    /\ pc = "entry"
    /\ VecIdle
    /\ MatIdle
    /\ QuatIdle
    /\ ArgIdle
    /\ CallIdle

\* if (number <= 0) return 0;
sqrt_reject ==
    /\ pc = "entry"
    /\ sqrtRejects(number)
    /\ ret' = Lit(0)
    /\ pc' = "done"
    /\ UNCHANGED <<number, xi, i>>
    /\ UNCHANGED notSqrtVars

\* float xi = number / 2;
sqrt_seed ==
    /\ pc = "entry"
    /\ ~sqrtRejects(number)
    /\ xi' = sqrtSeed(number)
    /\ i' = 0
    /\ pc' = "loop"
    /\ UNCHANGED <<number, ret>>
    /\ UNCHANGED notSqrtVars

\* for (int i = 0; i < 10; i++) xi = xi - (square(xi) - number) / (2 * xi);
sqrt_iterate ==
    /\ pc = "loop"
    /\ i < SqrtIterations
    /\ xi' = sqrtStep(xi, number)
    /\ i' = i + 1
    /\ UNCHANGED <<number, ret, pc>>
    /\ UNCHANGED notSqrtVars

\* return xi;
sqrt_return ==
    /\ pc = "loop"
    /\ ~(i < SqrtIterations)
    /\ ret' = xi
    /\ pc' = "done"
    /\ UNCHANGED <<number, xi, i>>
    /\ UNCHANGED notSqrtVars

SqrtNext ==
    \/ sqrt_reject
    \/ sqrt_seed
    \/ sqrt_iterate
    \/ sqrt_return

SpecSqrt == SqrtInit /\ [][SqrtNext]_vars

(***************************************************************************)
(* properties of sqrt                                                      *)
(***************************************************************************)
SqrtTol == Div(Lit(1), Lit(1000))

SqrtLo == Div(Lit(1), Lit(1000))

SqrtHi == Lit(1000000)

InSqrtRange(x) == Le(SqrtLo, x) /\ Le(x, SqrtHi)

SqrtWithinTol(x, r) == Le(Abs(Sub(Mul(r, r), x)), Mul(SqrtTol, x))

\* C1: for every x in [1e-3, 1e6] the value r returned by sqrt(x) satisfies
\* |r*r - x| <= 1e-3 * x.
C1_SqrtTolerance ==
    (pc = "done" /\ InSqrtRange(number)) => SqrtWithinTol(number, ret)

\* C10: for every x <= 0, sqrt(x) returns exactly 0, having made no pass of the
\* Newton loop, and the returned value is finite.
C10_SqrtNonPositive ==
    (pc = "done" /\ Le(number, Lit(0))) =>
        (Eq(ret, Lit(0)) /\ i = 0 /\ xi = FZero /\ ~IsNaN(ret))

\* a call with a non-positive argument has returned
C10_Witness == pc = "done" /\ Lt(number, Lit(0))

(***************************************************************************)
(* CVector2, CVector3, CVector4                                            *)
(***************************************************************************)
CVector2_length(a) == sqrt(Add(Mul(a[1], a[1]), Mul(a[2], a[2])))

CVector2_normalized(a) ==
    Let(CVector2_length(a), LAMBDA len :
        IF Eq(len, Lit(0)) THEN <<Lit(0), Lit(0)>>
        ELSE <<Div(a[1], len), Div(a[2], len)>>)

CVector2_normalize(a) ==
    Let(CVector2_length(a), LAMBDA len :
        IF ~Eq(len, Lit(0)) THEN <<Div(a[1], len), Div(a[2], len)>>
        ELSE a)

CVector2_zero == <<Lit(0), Lit(0)>>

CVector3_length(a) ==
    sqrt(Add(Add(Mul(a[1], a[1]), Mul(a[2], a[2])), Mul(a[3], a[3])))

CVector3_normalized(a) ==
    Let(CVector3_length(a), LAMBDA len :
        IF Eq(len, Lit(0)) THEN <<Lit(0), Lit(0), Lit(0)>>
        ELSE <<Div(a[1], len), Div(a[2], len), Div(a[3], len)>>)

\* CVector3_normalize without the test of len
CVector3_normalize_unguarded(a) ==
    Let(CVector3_length(a), LAMBDA len :
        <<Div(a[1], len), Div(a[2], len), Div(a[3], len)>>)

CVector3_normalize(a) ==
    Let(CVector3_length(a), LAMBDA len :
        IF ~Eq(len, Lit(0))
        THEN <<Div(a[1], len), Div(a[2], len), Div(a[3], len)>>
        ELSE a)

CVector3_zero == <<Lit(0), Lit(0), Lit(0)>>

CVector4_length(a) ==
    sqrt(Add(Add(Add(Mul(a[1], a[1]), Mul(a[2], a[2])), Mul(a[3], a[3])),
             Mul(a[4], a[4])))

CVector4_normalized(a) ==
    Let(CVector4_length(a), LAMBDA len :
        IF Eq(len, Lit(0)) THEN <<Lit(0), Lit(0), Lit(0), Lit(0)>>
        ELSE <<Div(a[1], len), Div(a[2], len), Div(a[3], len), Div(a[4], len)>>)

CVector4_normalize(a) ==
    Let(CVector4_length(a), LAMBDA len :
        IF ~Eq(len, Lit(0))
        THEN <<Div(a[1], len), Div(a[2], len), Div(a[3], len), Div(a[4], len)>>
        ELSE a)

CVector4_zero == <<Lit(0), Lit(0), Lit(0), Lit(0)>>

\* the member functions of the class of the object a
VecLength(a) ==
    CASE Len(a) = 2 -> CVector2_length(a)
      [] Len(a) = 3 -> CVector3_length(a)
      [] Len(a) = 4 -> CVector4_length(a)

VecNormalized(a) ==
    CASE Len(a) = 2 -> CVector2_normalized(a)
      [] Len(a) = 3 -> CVector3_normalized(a)
      [] Len(a) = 4 -> CVector4_normalized(a)

VecNormalize(a) ==
    CASE Len(a) = 2 -> CVector2_normalize(a)
      [] Len(a) = 3 -> CVector3_normalize(a)
      [] Len(a) = 4 -> CVector4_normalize(a)

VecZero(a) ==
    CASE Len(a) = 2 -> CVector2_zero
      [] Len(a) = 3 -> CVector3_zero
      [] Len(a) = 4 -> CVector4_zero

\* operator== of the vector classes
VecEq(a, b) == Len(a) = Len(b) /\ \A j \in 1..Len(a) : Eq(a[j], b[j])

VecFinite(a) == \A j \in 1..Len(a) : ~IsNaN(a[j])

(***************************************************************************)
(* a vector object and the calls made on it                                *)
(***************************************************************************)
MaxComp == 1

\* a component whose square is 1e6, and one whose square underflows to 0
BigComp == FromInt(1000)

TinyComp == FRound(1, 1, -100, FALSE)

VecComps == {FromInt(n) : n \in -1..MaxComp} \cup {BigComp, TinyComp}

VecInputs ==
    {<<x, y>> : x \in VecComps, y \in VecComps}
        \cup {<<x, y, z>> : x \in VecComps, y \in VecComps, z \in VecComps}
        \cup {<<x, y, z, w>> : x \in VecComps, y \in VecComps,
                               z \in VecComps, w \in VecComps}

\* CVectorN(x, y, ...)
VecInit ==
    /\ v \in VecInputs
    /\ vpre = <<>>
    /\ vret = <<>>
    /\ vop = "ctor"
    /\ SqrtIdle
    /\ MatIdle
    /\ QuatIdle
    /\ ArgIdle
    /\ CallIdle

\* v.normalized()
Vec_normalized ==
    /\ vop = "ctor"
    /\ vpre' = v
    /\ vret' = VecNormalized(v)
    /\ vop' = "normalized"
    /\ UNCHANGED v
    /\ UNCHANGED notVecVars

\* v.normalize()
Vec_normalize ==
    /\ vop = "ctor"
    /\ vpre' = v
    /\ v' = VecNormalize(v)
    /\ vop' = "normalize"
    /\ UNCHANGED vret
    /\ UNCHANGED notVecVars

VecNext ==
    \/ Vec_normalized
    \/ Vec_normalize

SpecVec == VecInit /\ [][VecNext]_vars

(***************************************************************************)
(* properties of normalized and normalize                                  *)
(***************************************************************************)
UnitTol == Div(Lit(1), Lit(1000))

NearOne(x) == Le(Abs(Sub(x, Lit(1))), UnitTol)

\* C2: for every vector v other than the zero vector, of whatever magnitude,
\* v.normalized().length() is within 1e-3 of 1.
C2_NormalizedUnitLength ==
    (vop = "normalized" /\ ~VecEq(v, VecZero(v))) =>
        NearOne(VecLength(vret))

CVector2_plus(a, otro) ==
    <<Add(a[1], otro[1]), Add(a[2], otro[2])>>

\* operator-(const CVector2&)
CVector2_minus(a, otro) ==
    <<Sub(a[1], otro[1]), Sub(a[2], otro[2])>>

\* operator*(float)
CVector2_times(a, fac) ==
    <<Mul(a[1], fac), Mul(a[2], fac)>>

\* lerp(a, b, t): if (t < 0.f) t = 0.f; if (t > 1.f) t = 1.f; return a + (b - a) * t;
CVector2_lerp(a, b, t) ==
    Let(IF Lt(t, Lit(0)) THEN Lit(0) ELSE t, LAMBDA t0 :
    Let(IF Lt(Lit(1), t0) THEN Lit(1) ELSE t0, LAMBDA t1 :
        CVector2_plus(a, CVector2_times(CVector2_minus(b, a), t1))))

\* operator+(const CVector3&)
CVector3_plus(a, otro) ==
    <<Add(a[1], otro[1]), Add(a[2], otro[2]), Add(a[3], otro[3])>>

\* operator-(const CVector3&)
CVector3_minus(a, otro) ==
    <<Sub(a[1], otro[1]), Sub(a[2], otro[2]), Sub(a[3], otro[3])>>

\* operator*(float)
CVector3_times(a, fac) ==
    <<Mul(a[1], fac), Mul(a[2], fac), Mul(a[3], fac)>>

\* lerp(a, b, t): if (t < 0.f) t = 0.f; if (t > 1.f) t = 1.f; return a + (b - a) * t;
CVector3_lerp(a, b, t) ==
    Let(IF Lt(t, Lit(0)) THEN Lit(0) ELSE t, LAMBDA t0 :
    Let(IF Lt(Lit(1), t0) THEN Lit(1) ELSE t0, LAMBDA t1 :
        CVector3_plus(a, CVector3_times(CVector3_minus(b, a), t1))))

\* operator+(const CVector4&)
CVector4_plus(a, otro) ==
    <<Add(a[1], otro[1]), Add(a[2], otro[2]), Add(a[3], otro[3]), Add(a[4], otro[4])>>

\* operator-(const CVector4&)
CVector4_minus(a, otro) ==
    <<Sub(a[1], otro[1]), Sub(a[2], otro[2]), Sub(a[3], otro[3]), Sub(a[4], otro[4])>>

\* operator*(float)
CVector4_times(a, fac) ==
    <<Mul(a[1], fac), Mul(a[2], fac), Mul(a[3], fac), Mul(a[4], fac)>>

\* lerp(a, b, t): if (t < 0.f) t = 0.f; if (t > 1.f) t = 1.f; return a + (b - a) * t;
CVector4_lerp(a, b, t) ==
    Let(IF Lt(t, Lit(0)) THEN Lit(0) ELSE t, LAMBDA t0 :
    Let(IF Lt(Lit(1), t0) THEN Lit(1) ELSE t0, LAMBDA t1 :
        CVector4_plus(a, CVector4_times(CVector4_minus(b, a), t1))))

VecLerp(a, b, t) ==
    CASE Len(a) = 2 -> CVector2_lerp(a, b, t)
      [] Len(a) = 3 -> CVector3_lerp(a, b, t)
      [] Len(a) = 4 -> CVector4_lerp(a, b, t)

(***************************************************************************)
(* the call CVectorN::lerp(a, b, t): a is v, b is operand, t is factor     *)
(***************************************************************************)
MaxLerpComp == 1

LerpComps ==
    {FromInt(n) : n \in -MaxLerpComp..MaxLerpComp}
        \cup {TinyComp, FDiv(FromInt(1), FromInt(10))}

\* vectors of n components: the first is x, the others are y
LerpVecs(n) ==
    {[j \in 1..n |-> IF j = 1 THEN x ELSE y] : x \in LerpComps, y \in LerpComps}

\* -1, 0, 1/4, 1/2, 1, 2
LerpFactors ==
    {FromInt(-1), FZero, FDiv(FromInt(1), FromInt(4)), FDiv(FromInt(1), FromInt(2)),
     FromInt(1), FromInt(2)}

LerpInit ==
    /\ \E n \in {2, 3, 4} :
           /\ v \in LerpVecs(n)
           /\ operand \in LerpVecs(n)
    /\ factor \in LerpFactors
    /\ FrameIdle
    /\ vpre = <<>>
    /\ vret = <<>>
    /\ vop = "ctor"
    /\ SqrtIdle
    /\ MatIdle
    /\ QuatIdle
    /\ CallIdle

\* CVectorN::lerp(v, operand, factor)
Vec_lerp ==
    /\ vop = "ctor"
    /\ vpre' = v
    /\ vret' = VecLerp(v, operand, factor)
    /\ vop' = "lerp"
    /\ UNCHANGED <<v, argVars>>
    /\ UNCHANGED <<sqrtVars, matVars, quatVars, callVars>>

LerpNext == Vec_lerp

SpecLerp == LerpInit /\ [][LerpNext]_vars

\* a + (b - a) * t
LerpFormula(a, b, t) ==
    [j \in 1..Len(a) |-> Add(a[j], Mul(Sub(b[j], a[j]), t))]

\* C12: CVectorN::lerp(a, b, t) is a for every t <= 0, b for every t >= 1 and
\* a + (b - a) * t for every t in [0, 1].
C12_LerpClamps ==
    (vop = "lerp") =>
        /\ Le(factor, Lit(0)) => VecEq(vret, v)
        /\ Le(Lit(1), factor) => VecEq(vret, operand)
        /\ (Le(Lit(0), factor) /\ Le(factor, Lit(1))) =>
               VecEq(vret, LerpFormula(v, operand, factor))

(***************************************************************************)
(* Matrix2x2, Matrix3x3, Matrix4x4: m[fil][col] of the source is            *)
(* m[fil + 1][col + 1] here                                                *)
(***************************************************************************)
\* the storage float m[n][n] of an object before its constructor body runs:
\* indeterminate values
Indeterminate(n) == [r \in 1..n |-> [c \in 1..n |-> NaN]]

\* operator== of the matrix classes
MatEq(a, b) ==
    /\ Len(a) = Len(b)
    /\ \A r \in 1..Len(a) : \A c \in 1..Len(a) : Eq(a[r][c], b[r][c])

MatFinite(a) == \A r \in 1..Len(a) : \A c \in 1..Len(a) : ~IsNaN(a[r][c])

Matrix2x2_setIdentity(m) ==
    [m EXCEPT ![1][1] = Lit(1), ![1][2] = Lit(0),
              ![2][1] = Lit(0), ![2][2] = Lit(1)]

\* Matrix2x2()
Matrix2x2_ctor == Matrix2x2_setIdentity(Indeterminate(2))

\* Matrix2x2(m00, m01, m10, m11)
Matrix2x2_elems(m00, m01, m10, m11) == <<<<m00, m01>>, <<m10, m11>>>>

Matrix2x2_zero == Matrix2x2_elems(Lit(0), Lit(0), Lit(0), Lit(0))

Matrix2x2_identity == Matrix2x2_ctor

\* operator*(const Matrix2x2&): r = zero(), then r.m[i][j] += m[i][k] * other.m[k][j]
Matrix2x2_mul(m, other) ==
    [ii \in 1..2 |-> [jj \in 1..2 |->
        Add(Add(Matrix2x2_zero[ii][jj], Mul(m[ii][1], other[1][jj])),
            Mul(m[ii][2], other[2][jj]))]]

Matrix2x2_determinant(m) == Sub(Mul(m[1][1], m[2][2]), Mul(m[1][2], m[2][1]))

\* Matrix2x2_inverse with the off-diagonal entries not negated
Matrix2x2_inverse_unsigned(m) ==
    Let(Matrix2x2_determinant(m), LAMBDA det :
        IF Eq(det, Lit(0)) THEN Matrix2x2_ctor
        ELSE Let(Div(Lit(1), det), LAMBDA invDet :
                 Matrix2x2_elems(Mul(m[2][2], invDet), Mul(m[1][2], invDet),
                                 Mul(m[2][1], invDet), Mul(m[1][1], invDet))))

Matrix2x2_inverse(m) ==
    Let(Matrix2x2_determinant(m), LAMBDA det :
        IF Eq(det, Lit(0)) THEN Matrix2x2_ctor
        ELSE Let(Div(Lit(1), det), LAMBDA invDet :
                 Matrix2x2_elems(Mul(m[2][2], invDet), Mul(Neg(m[1][2]), invDet),
                                 Mul(Neg(m[2][1]), invDet), Mul(m[1][1], invDet))))

Matrix3x3_setIdentity(m) ==
    [m EXCEPT ![1][1] = Lit(1), ![1][2] = Lit(0), ![1][3] = Lit(0),
              ![2][1] = Lit(0), ![2][2] = Lit(1), ![2][3] = Lit(0),
              ![3][1] = Lit(0), ![3][2] = Lit(0), ![3][3] = Lit(1)]

\* Matrix3x3()
Matrix3x3_ctor == Matrix3x3_setIdentity(Indeterminate(3))

\* Matrix3x3(m00, ..., m22)
Matrix3x3_elems(m00, m01, m02, m10, m11, m12, m20, m21, m22) ==
    <<<<m00, m01, m02>>, <<m10, m11, m12>>, <<m20, m21, m22>>>>

Matrix3x3_identity ==
    Matrix3x3_elems(Lit(1), Lit(0), Lit(0),
                    Lit(0), Lit(1), Lit(0),
                    Lit(0), Lit(0), Lit(1))

Matrix3x3_zero ==
    Matrix3x3_elems(Lit(0), Lit(0), Lit(0),
                    Lit(0), Lit(0), Lit(0),
                    Lit(0), Lit(0), Lit(0))

\* operator*(float): Matrix3x3 r; r.m[i][j] = m[i][j] * sca
Matrix3x3_scaled(m, sca) ==
    [ii \in 1..3 |-> [jj \in 1..3 |-> Mul(m[ii][jj], sca)]]

\* operator*(const Matrix3x3&): r = zero(), then r.m[fil][col] += m[fil][k] * otro.m[k][col]
Matrix3x3_mul(m, otro) ==
    [fil \in 1..3 |-> [col \in 1..3 |->
        Add(Add(Add(Matrix3x3_zero[fil][col], Mul(m[fil][1], otro[1][col])),
                Mul(m[fil][2], otro[2][col])),
            Mul(m[fil][3], otro[3][col]))]]

Matrix3x3_determinant(m) ==
    Add(Sub(Mul(m[1][1], Sub(Mul(m[2][2], m[3][3]), Mul(m[2][3], m[3][2]))),
            Mul(m[1][2], Sub(Mul(m[2][1], m[3][3]), Mul(m[2][3], m[3][1])))),
        Mul(m[1][3], Sub(Mul(m[2][1], m[3][2]), Mul(m[2][2], m[3][1]))))

Matrix3x3_transpose(m) ==
    Matrix3x3_elems(m[1][1], m[2][1], m[3][1],
                    m[1][2], m[2][2], m[3][2],
                    m[1][3], m[2][3], m[3][3])

\* cofactor(fil, col), fil and col in 0..2
Matrix3x3_cofactor(m, fil, col) ==
    LET r1 == (fil + 1) % 3
        r2 == (fil + 2) % 3
        c1 == (col + 1) % 3
        c2 == (col + 2) % 3
    IN  Let(Sub(Mul(m[r1 + 1][c1 + 1], m[r2 + 1][c2 + 1]),
                Mul(m[r1 + 1][c2 + 1], m[r2 + 1][c1 + 1])),
            LAMBDA minor : IF (fil + col) % 2 = 0 THEN minor ELSE Neg(minor))

Matrix3x3_cofactorMatrix(m) ==
    Matrix3x3_elems(
        Matrix3x3_cofactor(m, 0, 0), Matrix3x3_cofactor(m, 0, 1), Matrix3x3_cofactor(m, 0, 2),
        Matrix3x3_cofactor(m, 1, 0), Matrix3x3_cofactor(m, 1, 1), Matrix3x3_cofactor(m, 1, 2),
        Matrix3x3_cofactor(m, 2, 0), Matrix3x3_cofactor(m, 2, 1), Matrix3x3_cofactor(m, 2, 2))

Matrix3x3_adjugate(m) == Matrix3x3_transpose(Matrix3x3_cofactorMatrix(m))

\* Matrix3x3_inverse without the test of det
Matrix3x3_inverse_unguarded(m) ==
    Matrix3x3_scaled(Matrix3x3_adjugate(m), Div(Lit(1), Matrix3x3_determinant(m)))

Matrix3x3_inverse(m) ==
    Let(Matrix3x3_determinant(m), LAMBDA det :
        IF Eq(det, Lit(0)) THEN Matrix3x3_identity
        ELSE Matrix3x3_scaled(Matrix3x3_adjugate(m), Div(Lit(1), det)))

Matrix4x4_setIdentity(m) ==
    [m EXCEPT ![1][1] = Lit(1), ![1][2] = Lit(0), ![1][3] = Lit(0), ![1][4] = Lit(0),
              ![2][1] = Lit(0), ![2][2] = Lit(1), ![2][3] = Lit(0), ![2][4] = Lit(0),
              ![3][1] = Lit(0), ![3][2] = Lit(0), ![3][3] = Lit(1), ![3][4] = Lit(0),
              ![4][1] = Lit(0), ![4][2] = Lit(0), ![4][3] = Lit(1), ![4][4] = Lit(0)]

\* Matrix4x4()
Matrix4x4_ctor == Matrix4x4_setIdentity(Indeterminate(4))

\* identity() with the rows that setIdentity() writes
Matrix4x4_identity_asSet == Matrix4x4_ctor

\* static Matrix4x4 identity()
Matrix4x4_identity ==
    <<<<Lit(1), Lit(0), Lit(0), Lit(0)>>,
      <<Lit(0), Lit(1), Lit(0), Lit(0)>>,
      <<Lit(0), Lit(0), Lit(1), Lit(0)>>,
      <<Lit(0), Lit(0), Lit(0), Lit(1)>>>>

\* the members of the class of the object m
MatCtor(n) ==
    CASE n = 2 -> Matrix2x2_ctor
      [] n = 3 -> Matrix3x3_ctor
      [] n = 4 -> Matrix4x4_ctor

MatSetIdentity(m) ==
    CASE Len(m) = 2 -> Matrix2x2_setIdentity(m)
      [] Len(m) = 3 -> Matrix3x3_setIdentity(m)
      [] Len(m) = 4 -> Matrix4x4_setIdentity(m)

MatIdentity(m) ==
    CASE Len(m) = 2 -> Matrix2x2_identity
      [] Len(m) = 3 -> Matrix3x3_identity
      [] Len(m) = 4 -> Matrix4x4_identity

MatDeterminant(m) ==
    CASE Len(m) = 2 -> Matrix2x2_determinant(m)
      [] Len(m) = 3 -> Matrix3x3_determinant(m)

MatInverse(m) ==
    CASE Len(m) = 2 -> Matrix2x2_inverse(m)
      [] Len(m) = 3 -> Matrix3x3_inverse(m)

(***************************************************************************)
(* a matrix object and the calls made on it                                *)
(***************************************************************************)
MaxEntry2 == 2

MaxEntry3 == 1

MaxEntry4 == 1

Mat2Inputs ==
    {Matrix2x2_elems(Lit(a), Lit(b), Lit(c), Lit(d)) :
        a \in -MaxEntry2..MaxEntry2, b \in -MaxEntry2..MaxEntry2,
        c \in -MaxEntry2..MaxEntry2, d \in -MaxEntry2..MaxEntry2}

Mat3Rows == {<<Lit(a), Lit(b), Lit(c)>> :
                a \in 0..MaxEntry3, b \in 0..MaxEntry3, c \in 0..MaxEntry3}

Mat3Inputs == {<<r1, r2, r3>> : r1 \in Mat3Rows, r2 \in Mat3Rows, r3 \in Mat3Rows}

\* 4x4 matrices with a on the diagonal and b elsewhere
Mat4Inputs ==
    {[r \in 1..4 |-> [c \in 1..4 |-> Lit(IF r = c THEN a ELSE b)]] :
        a \in -MaxEntry4..MaxEntry4, b \in -MaxEntry4..MaxEntry4}

MatInputs == Mat2Inputs \cup Mat3Inputs \cup Mat4Inputs

\* no matrix object yet
MatInit ==
    /\ mat = <<>>
    /\ mpre = <<>>
    /\ mret = <<>>
    /\ mop = "none"
    /\ SqrtIdle
    /\ VecIdle
    /\ QuatIdle
    /\ ArgIdle
    /\ CallIdle

\* MatrixNxN m;
Mat_default ==
    /\ mop = "none"
    /\ \E n \in {2, 3, 4} : mat' = MatCtor(n)
    /\ mop' = "default"
    /\ UNCHANGED <<mpre, mret>>
    /\ UNCHANGED notMatVars

\* MatrixNxN m(m00, m01, ...);
Mat_elems ==
    /\ mop = "none"
    /\ mat' \in MatInputs
    /\ mop' = "elems"
    /\ UNCHANGED <<mpre, mret>>
    /\ UNCHANGED notMatVars

\* m.setIdentity()
Mat_setIdentity ==
    /\ mop \in {"default", "elems"}
    /\ mpre' = mat
    /\ mat' = MatSetIdentity(mat)
    /\ mop' = "setIdentity"
    /\ UNCHANGED mret
    /\ UNCHANGED notMatVars

\* m.inverse(), of Matrix2x2 and Matrix3x3
Mat_inverse ==
    /\ mop \in {"default", "elems"}
    /\ Len(mat) \in {2, 3}
    /\ mpre' = mat
    /\ mret' = MatInverse(mat)
    /\ mop' = "inverse"
    /\ UNCHANGED mat
    /\ UNCHANGED notMatVars

\* m.cofactor(fil, col), of Matrix3x3
Mat_cofactor ==
    /\ mop \in {"default", "elems"}
    /\ Len(mat) = 3
    /\ mpre' = mat
    /\ \E fil \in 0..2, col \in 0..2 :
           mret' = [fil |-> fil, col |-> col, value |-> Matrix3x3_cofactor(mat, fil, col)]
    /\ mop' = "cofactor"
    /\ UNCHANGED mat
    /\ UNCHANGED notMatVars

\* m.adjugate(), of Matrix3x3
Mat_adjugate ==
    /\ mop \in {"default", "elems"}
    /\ Len(mat) = 3
    /\ mpre' = mat
    /\ mret' = Matrix3x3_adjugate(mat)
    /\ mop' = "adjugate"
    /\ UNCHANGED mat
    /\ UNCHANGED notMatVars

MatNext ==
    \/ Mat_default
    \/ Mat_elems
    \/ Mat_setIdentity
    \/ Mat_inverse
    \/ Mat_cofactor
    \/ Mat_adjugate

SpecMat == MatInit /\ [][MatNext]_vars

(***************************************************************************)
(* properties of the matrices                                              *)
(***************************************************************************)
\* 1 on every diagonal entry and 0 on every other entry
IsIdentityMatrix(m) ==
    \A r \in 1..Len(m) : \A c \in 1..Len(m) :
        Eq(m[r][c], Lit(IF r = c THEN 1 ELSE 0))

\* C3: a default-constructed matrix, and any matrix after setIdentity(), has 1
\* on every diagonal entry and 0 elsewhere and equals the static identity().
C3_DefaultIsIdentity ==
    (mop \in {"default", "setIdentity"}) =>
        (IsIdentityMatrix(mat) /\ MatEq(mat, MatIdentity(mat)))

\* C4: for every Matrix3x3 m with nonzero determinant, m * m.inverse() is the
\* identity matrix (in exact arithmetic).
C4_Inverse3x3RoundTrip ==
    (mop = "inverse" /\ Len(mat) = 3 /\ ~Eq(Matrix3x3_determinant(mat), Lit(0))) =>
        IsIdentityMatrix(Matrix3x3_mul(mat, mret))

\* C5: for every Matrix2x2 m with nonzero determinant, m * m.inverse() and
\* m.inverse() * m are both the identity matrix (in exact arithmetic).
C5_Inverse2x2RoundTrip ==
    (mop = "inverse" /\ Len(mat) = 2 /\ ~Eq(Matrix2x2_determinant(mat), Lit(0))) =>
        /\ IsIdentityMatrix(Matrix2x2_mul(mat, mret))
        /\ IsIdentityMatrix(Matrix2x2_mul(mret, mat))

\* inverse() has returned for a Matrix2x2 of nonzero determinant that is not
\* its own inverse
C5_Witness ==
    /\ mop = "inverse"
    /\ Len(mat) = 2
    /\ ~Eq(Matrix2x2_determinant(mat), Lit(0))
    /\ ~MatEq(mret, mat)

\* C7: for every Matrix2x2 and Matrix3x3 whose determinant is exactly 0,
\* inverse() returns the identity matrix, divides nothing by zero, and leaves
\* the receiver unchanged.
C7_SingularInverseIsIdentity ==
    (mop = "inverse" /\ Eq(MatDeterminant(mpre), Lit(0))) =>
        /\ IsIdentityMatrix(mret)
        /\ MatFinite(mret)
        /\ mat = mpre

\* inverse() has returned for a Matrix3x3 of determinant 0
C7_Witness ==
    mop = "inverse" /\ Len(mat) = 3 /\ Eq(Matrix3x3_determinant(mpre), Lit(0))

\* the rows (columns) that are left when row (column) n of 0..2 is deleted,
\* in their order
Remaining(n) == CASE n = 0 -> <<1, 2>> [] n = 1 -> <<0, 2>> [] n = 2 -> <<0, 1>>

\* (-1)^(fil+col) times the determinant of the 2x2 minor of m obtained by
\* deleting row fil and column col
StandardCofactor(m, fil, col) ==
    Let2(Remaining(fil), Remaining(col), LAMBDA rs, cs :
        Let(Sub(Mul(m[rs[1] + 1][cs[1] + 1], m[rs[2] + 1][cs[2] + 1]),
                Mul(m[rs[1] + 1][cs[2] + 1], m[rs[2] + 1][cs[1] + 1])),
            LAMBDA minor : IF (fil + col) % 2 = 0 THEN minor ELSE Neg(minor)))

\* the transpose of the matrix of the standard cofactors
StandardAdjugate(m) ==
    [r \in 1..3 |-> [c \in 1..3 |-> StandardCofactor(m, c - 1, r - 1)]]

\* C21: for every Matrix3x3 m and fil, col in 0..2, cofactor(fil, col) is the
\* standard cofactor, (-1)^(fil+col) times the determinant of the minor without
\* row fil and column col; adjugate() is the transpose of the matrix of these
\* cofactors, and m * m.adjugate() is determinant() times the identity.
C21_StandardCofactor ==
    /\ mop = "cofactor" =>
           Eq(mret.value, StandardCofactor(mat, mret.fil, mret.col))
    /\ mop = "adjugate" =>
           /\ MatEq(mret, StandardAdjugate(mat))
           /\ MatEq(Matrix3x3_mul(mat, mret),
                    Matrix3x3_scaled(Matrix3x3_identity, Matrix3x3_determinant(mat)))

(***************************************************************************)
(* Matrix2x2, Matrix3x3, Matrix4x4: operator*(const CVectorN&)             *)
(***************************************************************************)

\* operator*(const CVector2&)
Matrix2x2_timesVec2(m, vec) ==
    <<Add(Mul(m[1][1], vec[1]), Mul(m[1][2], vec[2])),
      Add(Mul(m[2][1], vec[1]), Mul(m[2][2], vec[2]))>>

\* operator*(const CVector3&)
Matrix3x3_timesVec3(m, vec) ==
    <<Add(Add(Mul(m[1][1], vec[1]), Mul(m[1][2], vec[2])), Mul(m[1][3], vec[3])),
      Add(Add(Mul(m[2][1], vec[1]), Mul(m[2][2], vec[2])), Mul(m[2][3], vec[3])),
      Add(Add(Mul(m[3][1], vec[1]), Mul(m[3][2], vec[2])), Mul(m[3][3], vec[3]))>>

\* operator*(const CVector4&)
Matrix4x4_timesVec4(m, vec) ==
    <<Add(Add(Add(Mul(m[1][1], vec[1]), Mul(m[1][2], vec[2])), Mul(m[1][3], vec[3])), Mul(m[1][4], vec[4])),
      Add(Add(Add(Mul(m[2][1], vec[1]), Mul(m[2][2], vec[2])), Mul(m[2][3], vec[3])), Mul(m[2][4], vec[4])),
      Add(Add(Add(Mul(m[3][1], vec[1]), Mul(m[3][2], vec[2])), Mul(m[3][3], vec[3])), Mul(m[3][4], vec[4])),
      Add(Add(Add(Mul(m[4][1], vec[1]), Mul(m[4][2], vec[2])), Mul(m[4][3], vec[3])), Mul(m[4][4], vec[4]))>>

\* operator*(const CVector2&): x, y and w, then if (w != 0.0f) the division
Matrix3x3_timesVec2(m, vec) ==
    Let(<<Add(Add(Mul(m[1][1], vec[1]), Mul(m[1][2], vec[2])), Mul(m[1][3], Lit(1))),
          Add(Add(Mul(m[2][1], vec[1]), Mul(m[2][2], vec[2])), Mul(m[2][3], Lit(1))),
          Add(Add(Mul(m[3][1], vec[1]), Mul(m[3][2], vec[2])), Mul(m[3][3], Lit(1)))>>,
        LAMBDA h : IF ~Eq(h[3], Lit(0)) THEN <<Div(h[1], h[3]), Div(h[2], h[3])>>
                   ELSE <<h[1], h[2]>>)

\* Matrix4x4_timesVec3 without the test of w
Matrix4x4_timesVec3_unguarded(m, vec) ==
    Let(<<Add(Add(Add(Mul(m[1][1], vec[1]), Mul(m[1][2], vec[2])), Mul(m[1][3], vec[3])), m[1][4]),
          Add(Add(Add(Mul(m[2][1], vec[1]), Mul(m[2][2], vec[2])), Mul(m[2][3], vec[3])), m[2][4]),
          Add(Add(Add(Mul(m[3][1], vec[1]), Mul(m[3][2], vec[2])), Mul(m[3][3], vec[3])), m[3][4]),
          Add(Add(Add(Mul(m[4][1], vec[1]), Mul(m[4][2], vec[2])), Mul(m[4][3], vec[3])), m[4][4])>>,
        LAMBDA h : <<Div(h[1], h[4]), Div(h[2], h[4]), Div(h[3], h[4])>>)

\* operator*(const CVector3&): x, y, z and w, then if (w != 0.0f) the division
Matrix4x4_timesVec3(m, vec) ==
    Let(<<Add(Add(Add(Mul(m[1][1], vec[1]), Mul(m[1][2], vec[2])), Mul(m[1][3], vec[3])), m[1][4]),
          Add(Add(Add(Mul(m[2][1], vec[1]), Mul(m[2][2], vec[2])), Mul(m[2][3], vec[3])), m[2][4]),
          Add(Add(Add(Mul(m[3][1], vec[1]), Mul(m[3][2], vec[2])), Mul(m[3][3], vec[3])), m[3][4]),
          Add(Add(Add(Mul(m[4][1], vec[1]), Mul(m[4][2], vec[2])), Mul(m[4][3], vec[3])), m[4][4])>>,
        LAMBDA h : IF ~Eq(h[4], Lit(0)) THEN <<Div(h[1], h[4]), Div(h[2], h[4]), Div(h[3], h[4])>>
                   ELSE <<h[1], h[2], h[3]>>)

\* the product of a matrix and a vector, by their classes
MatTimesVec(m, vec) ==
    CASE Len(m) = 2 /\ Len(vec) = 2 -> Matrix2x2_timesVec2(m, vec)
      [] Len(m) = 3 /\ Len(vec) = 3 -> Matrix3x3_timesVec3(m, vec)
      [] Len(m) = 3 /\ Len(vec) = 2 -> Matrix3x3_timesVec2(m, vec)
      [] Len(m) = 4 /\ Len(vec) = 4 -> Matrix4x4_timesVec4(m, vec)
      [] Len(m) = 4 /\ Len(vec) = 3 -> Matrix4x4_timesVec3(m, vec)

\* MatrixNxN::identity()
MatStaticIdentity(n) ==
    CASE n = 2 -> Matrix2x2_identity
      [] n = 3 -> Matrix3x3_identity
      [] n = 4 -> Matrix4x4_identity

(***************************************************************************)
(* a matrix, a vector (operand) and their product                          *)
(***************************************************************************)
MaxMVEntry == 1

MaxMVComp == 1

MVEntries == {FromInt(n) : n \in -MaxMVEntry..MaxMVEntry}

\* a on the diagonal but for the last entry e, c down the last column, d at
\* the start of the last row
MVMats(n) ==
    {[r \in 1..n |-> [c \in 1..n |->
        IF r = n /\ c = n THEN e
        ELSE IF r = n /\ c = 1 THEN d
        ELSE IF c = n THEN b
        ELSE IF r = c THEN a
        ELSE FZero]] :
        a \in MVEntries, b \in MVEntries, d \in MVEntries, e \in MVEntries}

MVComps == {FromInt(n) : n \in -1..MaxMVComp} \cup {FDiv(FromInt(1), FromInt(10))}

\* vectors of 2, 3 and 4 components: (x, y), (x, y, x) and (x, y, x, y)
MVVecs ==
    {[j \in 1..n |-> IF j % 2 = 1 THEN x ELSE y] :
        n \in {2, 3, 4}, x \in MVComps, y \in MVComps}

\* the classes of matrix that multiply a vector of k components
MVDims(k) == {k, k + 1} \cap {2, 3, 4}

MatVecInit ==
    /\ operand \in MVVecs
    /\ factor = FZero
    /\ FrameIdle
    /\ mat = <<>>
    /\ mpre = <<>>
    /\ mret = <<>>
    /\ mop = "none"
    /\ SqrtIdle
    /\ VecIdle
    /\ QuatIdle
    /\ CallIdle

\* MatrixNxN m = MatrixNxN::identity(); with N the number of components of operand
MatVec_identity ==
    /\ mop = "none"
    /\ mat' = MatStaticIdentity(Len(operand))
    /\ mop' = "identity"
    /\ UNCHANGED <<mpre, mret>>
    /\ UNCHANGED notMatVars

\* MatrixNxN m(m00, m01, ...);
MatVec_elems ==
    /\ mop = "none"
    /\ \E n \in MVDims(Len(operand)) : mat' \in MVMats(n)
    /\ mop' = "elems"
    /\ UNCHANGED <<mpre, mret>>
    /\ UNCHANGED notMatVars

\* m * operand
MatVec_times ==
    /\ mop \in {"identity", "elems"}
    /\ mpre' = mat
    /\ mret' = MatTimesVec(mat, operand)
    /\ mop' = IF mop = "identity" THEN "identity times" ELSE "times"
    /\ UNCHANGED mat
    /\ UNCHANGED notMatVars

MatVecNext ==
    \/ MatVec_identity
    \/ MatVec_elems
    \/ MatVec_times

SpecMatVec == MatVecInit /\ [][MatVecNext]_vars

\* C14: MatrixNxN::identity() * v == v for every CVectorN v, N = 2, 3, 4.
C14_IdentityTimesVector ==
    (mop = "identity times") =>
        (Len(mret) = Len(operand) /\ VecEq(mret, operand))

\* identity() * v has been computed for a CVector4 v with four nonzero components
C14_Witness ==
    /\ mop = "identity times"
    /\ Len(operand) = 4
    /\ \A j \in 1..4 : ~Eq(operand[j], Lit(0))
    /\ ~Eq(operand[3], operand[4])

\* the vector extended with the homogeneous coordinate 1
Homogeneous(vec) == Append(vec, Lit(1))

\* the first n components of h divided by d
DividedBy(h, n, d) == [j \in 1..n |-> Div(h[j], d)]

\* C15: Matrix3x3 * CVector2 and Matrix4x4 * CVector3 are the matrix applied to
\* (x, y[, z], 1), whose last component is w: the other components divided by
\* w when w != 0 and as they are when w == 0; nothing is divided by zero.
C15_Dehomogenized ==
    (mop \in {"times", "identity times"} /\ Len(operand) = Len(mat) - 1) =>
        /\ Len(mret) = Len(operand)
        /\ VecFinite(mret)
        /\ \E h \in {MatTimesVec(mat, Homogeneous(operand))} :
               IF Eq(h[Len(mat)], Lit(0))
               THEN VecEq(mret, SubSeq(h, 1, Len(operand)))
               ELSE VecEq(mret, DividedBy(h, Len(operand), h[Len(mat)]))

\* Matrix4x4 * CVector3 has been computed with w == 0 and a nonzero result
C15_Witness ==
    /\ mop = "times"
    /\ Len(mat) = 4
    /\ Len(operand) = 3
    /\ Eq(MatTimesVec(mat, Homogeneous(operand))[4], Lit(0))
    /\ ~Eq(mret[1], Lit(0))

(***************************************************************************)
(* Quaternion, as <<x, y, z, w>>                                           *)
(***************************************************************************)
\* Quaternion()
Quaternion_ctor == <<Lit(0), Lit(0), Lit(0), Lit(1)>>

Quaternion_identity == <<Lit(0), Lit(0), Lit(0), Lit(1)>>

\* operator*(const Quaternion&)
Quaternion_mul(a, otro) ==
    LET x == a[1]
        y == a[2]
        z == a[3]
        w == a[4]
        ox == otro[1]
        oy == otro[2]
        oz == otro[3]
        ow == otro[4]
    IN  <<Sub(Add(Add(Mul(w, ox), Mul(x, ow)), Mul(y, oz)), Mul(z, oy)),
          Add(Add(Sub(Mul(w, oy), Mul(x, oz)), Mul(y, ow)), Mul(z, ox)),
          Add(Sub(Add(Mul(w, oz), Mul(x, oy)), Mul(y, ox)), Mul(z, ow)),
          Sub(Sub(Sub(Mul(w, ow), Mul(x, ox)), Mul(y, oy)), Mul(z, oz))>>

\* x * x + y * y + z * z + w * w
Quaternion_lengthSquared(a) ==
    Add(Add(Add(Mul(a[1], a[1]), Mul(a[2], a[2])), Mul(a[3], a[3])),
        Mul(a[4], a[4]))

Quaternion_length(a) == sqrt(Quaternion_lengthSquared(a))

Quaternion_normalize(a) ==
    Let(Quaternion_length(a), LAMBDA len :
        IF Eq(len, Lit(0)) THEN a
        ELSE <<Div(a[1], len), Div(a[2], len), Div(a[3], len), Div(a[4], len)>>)

\* Quaternion_normalized without the test of len
Quaternion_normalized_unguarded(a) ==
    Let(Quaternion_length(a), LAMBDA len :
        <<Div(a[1], len), Div(a[2], len), Div(a[3], len), Div(a[4], len)>>)

Quaternion_normalized(a) ==
    Let(Quaternion_length(a), LAMBDA len :
        IF Eq(len, Lit(0)) THEN <<Lit(0), Lit(0), Lit(0), Lit(1)>>
        ELSE <<Div(a[1], len), Div(a[2], len), Div(a[3], len), Div(a[4], len)>>)

\* Quaternion_inverse returning the conjugate, not divided by lenSq
Quaternion_inverse_conjugate(a) ==
    Let(Quaternion_lengthSquared(a), LAMBDA lenSq :
        IF Eq(lenSq, Lit(0)) THEN Quaternion_ctor
        ELSE <<Neg(a[1]), Neg(a[2]), Neg(a[3]), a[4]>>)

Quaternion_inverse(a) ==
    Let(Quaternion_lengthSquared(a), LAMBDA lenSq :
        IF Eq(lenSq, Lit(0)) THEN Quaternion_ctor
        ELSE <<Div(Neg(a[1]), lenSq), Div(Neg(a[2]), lenSq),
               Div(Neg(a[3]), lenSq), Div(a[4], lenSq)>>)

\* operator== of Quaternion
QuatEq(a, b) == \A j \in 1..4 : Eq(a[j], b[j])

QuatFinite(a) == \A j \in 1..4 : ~IsNaN(a[j])

(***************************************************************************)
(* a Quaternion object and the calls made on it                            *)
(***************************************************************************)
MaxQuat == 2

\* quaternions of exact components, and the binary32 quaternion (0,0,0,0)
QuatInputs ==
    {<<Lit(x), Lit(y), Lit(z), Lit(w)>> :
        x \in -MaxQuat..MaxQuat, y \in -MaxQuat..MaxQuat,
        z \in -MaxQuat..MaxQuat, w \in -MaxQuat..MaxQuat}
        \cup {<<FZero, FZero, FZero, FZero>>}

QuatZero == <<Lit(0), Lit(0), Lit(0), Lit(0)>>

\* Quaternion q(x, y, z, w);
QuatInit ==
    /\ q \in QuatInputs
    /\ qpre = <<>>
    /\ qret = <<>>
    /\ qop = "ctor"
    /\ SqrtIdle
    /\ VecIdle
    /\ MatIdle
    /\ ArgIdle
    /\ CallIdle

\* q.inverse()
Quat_inverse ==
    /\ qop = "ctor"
    /\ qpre' = q
    /\ qret' = Quaternion_inverse(q)
    /\ qop' = "inverse"
    /\ UNCHANGED q
    /\ UNCHANGED notQuatVars

\* q.normalized()
Quat_normalized ==
    /\ qop = "ctor"
    /\ qpre' = q
    /\ qret' = Quaternion_normalized(q)
    /\ qop' = "normalized"
    /\ UNCHANGED q
    /\ UNCHANGED notQuatVars

\* q.normalize()
Quat_normalize ==
    /\ qop = "ctor"
    /\ qpre' = q
    /\ q' = Quaternion_normalize(q)
    /\ qop' = "normalize"
    /\ UNCHANGED qret
    /\ UNCHANGED notQuatVars

QuatNext ==
    \/ Quat_inverse
    \/ Quat_normalized
    \/ Quat_normalize

SpecQuat == QuatInit /\ [][QuatNext]_vars

(***************************************************************************)
(* properties of Quaternion                                                *)
(***************************************************************************)
\* C6: for every quaternion q other than (0,0,0,0), unit length or not,
\* q * q.inverse() and q.inverse() * q are the identity quaternion (0,0,0,1)
\* (in exact arithmetic).
C6_QuaternionInverseRoundTrip ==
    (qop = "inverse" /\ ~QuatEq(q, QuatZero)) =>
        /\ QuatEq(Quaternion_mul(q, qret), Quaternion_identity)
        /\ QuatEq(Quaternion_mul(qret, q), Quaternion_identity)

\* inverse() has returned for a quaternion that is not of unit length
C6_Witness ==
    /\ qop = "inverse"
    /\ ~QuatEq(q, QuatZero)
    /\ ~Eq(Quaternion_lengthSquared(q), Lit(1))

\* C8: for the quaternion (0,0,0,0), normalized() and inverse() return the
\* identity (0,0,0,1), normalize() leaves the receiver at (0,0,0,0), and none
\* of them divides by zero.
C8_ZeroQuaternionFallback ==
    /\ (qop \in {"normalized", "inverse"} /\ QuatEq(qpre, QuatZero)) =>
           /\ QuatEq(qret, Quaternion_identity)
           /\ QuatFinite(qret)
           /\ q = qpre
    /\ (qop = "normalize" /\ QuatEq(qpre, QuatZero)) =>
           /\ q = qpre
           /\ QuatEq(q, QuatZero)
           /\ QuatFinite(q)

\* normalize() has run on the quaternion (0,0,0,0)
C8_Witness == qop = "normalize" /\ QuatEq(qpre, QuatZero)

(***************************************************************************)
(* Quaternion::lerp(a, b, t): a is q, b is operand, t is factor            *)
(***************************************************************************)
\* Quaternion(a.x + (b.x - a.x) * t, ..., a.w + (b.w - a.w) * t)
Quaternion_interpolant(a, b, t) ==
    <<Add(a[1], Mul(Sub(b[1], a[1]), t)), Add(a[2], Mul(Sub(b[2], a[2]), t)),
      Add(a[3], Mul(Sub(b[3], a[3]), t)), Add(a[4], Mul(Sub(b[4], a[4]), t))>>

\* t = (t < 0.f) ? 0.f : ((t > 1.f) ? 1.f : t)
Quaternion_lerpClamp(t) ==
    IF Lt(t, Lit(0)) THEN Lit(0) ELSE IF Lt(Lit(1), t) THEN Lit(1) ELSE t

Quaternion_lerp(a, b, t) ==
    Quaternion_normalized(Quaternion_interpolant(a, b, Quaternion_lerpClamp(t)))

MaxQLerp == 1

QLerpComps ==
    {FromInt(n) : n \in -MaxQLerp..MaxQLerp}
        \cup {TinyComp, FDiv(FromInt(3), FromInt(10))}

\* quaternions (x, 0, 0, w)
QLerpQuats == {<<x, FZero, FZero, w>> : x \in QLerpComps, w \in QLerpComps}

\* -1, 0, 1/2, 1, 2
QLerpFactors ==
    {FromInt(-1), FZero, FDiv(FromInt(1), FromInt(2)), FromInt(1), FromInt(2)}

QLerpInit ==
    /\ q \in QLerpQuats
    /\ operand \in QLerpQuats
    /\ factor \in QLerpFactors
    /\ FrameIdle
    /\ qpre = <<>>
    /\ qret = <<>>
    /\ qop = "ctor"
    /\ SqrtIdle
    /\ VecIdle
    /\ MatIdle
    /\ CallIdle

\* Quaternion::lerp(q, operand, factor)
Quat_lerp ==
    /\ qop = "ctor"
    /\ qpre' = q
    /\ qret' = Quaternion_lerp(q, operand, factor)
    /\ qop' = "lerp"
    /\ UNCHANGED <<q, argVars>>
    /\ UNCHANGED <<sqrtVars, vecVars, matVars, callVars>>

QLerpNext == Quat_lerp

SpecQLerp == QLerpInit /\ [][QLerpNext]_vars

\* C13: Quaternion::lerp(a, b, t) is a.normalized() for every t <= 0 and
\* b.normalized() for every t >= 1 (a and b themselves when of unit length);
\* for every t it is normalized() of the componentwise interpolant, so it is of
\* unit length, and it is the identity when the interpolant is (0,0,0,0).
C13_QuaternionLerp ==
    (qop = "lerp") =>
        /\ Le(factor, Lit(0)) => QuatEq(qret, Quaternion_normalized(q))
        /\ Le(Lit(1), factor) => QuatEq(qret, Quaternion_normalized(operand))
        /\ (Le(factor, Lit(0)) /\ Eq(Quaternion_lengthSquared(q), Lit(1))) =>
               QuatEq(qret, q)
        /\ (Le(Lit(1), factor) /\ Eq(Quaternion_lengthSquared(operand), Lit(1))) =>
               QuatEq(qret, operand)
        /\ QuatEq(qret, Quaternion_normalized(
                            Quaternion_interpolant(q, operand,
                                                   Quaternion_lerpClamp(factor))))
        /\ NearOne(Quaternion_lengthSquared(qret))
        /\ QuatEq(Quaternion_interpolant(q, operand, Quaternion_lerpClamp(factor)),
                  QuatZero) => QuatEq(qret, Quaternion_identity)

(***************************************************************************)
(* EngineMath: power, exp, mod, floor, ceil                                *)
(***************************************************************************)
\* the least and the greatest int
IntMin == -2147483647 - 1

IntMax == 2147483647

\* float e = 2.71828182845904523536f;
e == [k |-> "f", m |-> 11401300, e |-> -22]

\* the value of a finite float lies in the range of int
InIntRange(x) ==
    /\ ~IsNaN(x)
    /\ \/ x.k = "q"
       \/ x.m = 0
       \/ BitLen(IAbs(x.m)) + x.e <= 31
       \/ /\ x.m < 0
          /\ IAbs(x.m) = Pow2(BitLen(IAbs(x.m)) - 1)
          /\ BitLen(IAbs(x.m)) + x.e = 32

\* a float in the range of int, without its fractional part
TruncToInt(x) ==
    IF x.k = "q" THEN ISign(x.n) * (IAbs(x.n) \div x.d)
    ELSE IF x.m = 0 THEN 0
    ELSE IF BitLen(IAbs(x.m)) + x.e = 32 THEN IntMin
    ELSE IF x.e >= 0 THEN x.m * Pow2(x.e)
    ELSE IF -x.e >= MantBits THEN 0
    ELSE ISign(x.m) * (IAbs(x.m) \div Pow2(-x.e))

\* what a conversion of a value out of the range of int can give (undefined
\* behaviour): the "integer indefinite" of x86, a saturated value, zero
IntCastUndefined == {IntMin, IntMax, 0}

\* static_cast<int>(x): the values it can have
static_cast_int(x) ==
    IF InIntRange(x) THEN {TruncToInt(x)} ELSE IntCastUndefined

\* the conversion of an int to float
IntToFloat(n) ==
    IF n = IntMin THEN [k |-> "f", m |-> -Pow2(MantBits - 1), e |-> 8]
    ELSE FromInt(n)

\* n + 1 in int, which wraps around at IntMax
IntSucc(n) == IF n = IntMax THEN IntMin ELSE n + 1

\* i <= exponent
power_continues_inclusive(n, exponent) == Le(IntToFloat(n), exponent)

\* i < exponent, the condition of the loop of power; n is the int i
power_continues(n, exponent) == Lt(IntToFloat(n), exponent)

\* the loop of power from i = n on: <<result, i>> at its end
RECURSIVE power_loop(_, _, _, _)
power_loop(base, exponent, n, result) ==
    IF power_continues(n, exponent)
    THEN power_loop(base, exponent, n + 1, Mul(result, base))
    ELSE <<result, n>>

power(base, exponent) == power_loop(base, exponent, 0, FromInt(1))[1]

\* the number of times power executes result *= base
power_multiplications(base, exponent) ==
    power_loop(base, exponent, 0, FromInt(1))[2]

exp(exponent) == power(e, exponent)

\* mod(a, b): the values it can return
mod(a, b) ==
    IF Eq(b, Lit(0)) THEN {FZero}
    ELSE Let(Div(a, b), LAMBDA quo :
             {Sub(quo, IntToFloat(c)) : c \in static_cast_int(quo)})

\* floor(x): the values it can return
floor(x) == static_cast_int(x)

\* the least integer that is not below x
ceil_conventional(x) ==
    {IF Lt(IntToFloat(c), x) THEN IntSucc(c) ELSE c : c \in static_cast_int(x)}

\* ceil(x): the values it can return
ceil(x) == {IntSucc(c) : c \in static_cast_int(x)}

\* round(number): the values it can return; fPart = number - intPart is a
\* float, and intPart + 1 is returned when fPart >= 0.5f
round(x) ==
    {IF Le(FDiv(FromInt(1), FromInt(2)), Sub(x, IntToFloat(c))) THEN IntSucc(c) ELSE c :
        c \in static_cast_int(x)}

HalfWord == 65536

\* a * n in int for 0 < n < 2^15, kept to the 32 bits of int (the product of
\* the low and of the high 16 bits of a, the carry between them, and the sign
\* bit of the result)
IntTimes(a, n) ==
    Let2(a % HalfWord, ((a - (a % HalfWord)) \div HalfWord) % HalfWord, LAMBDA lo, hi :
        Let2((lo * n) % HalfWord, ((hi * n) + ((lo * n) \div HalfWord)) % HalfWord,
             LAMBDA plo, phi :
                 IF phi >= HalfWord \div 2 THEN ((phi - HalfWord) * HalfWord) + plo
                 ELSE (phi * HalfWord) + plo))

\* the loop of factorial, for (int i = number; i > 0; i--) result *= i,
\* from i = n on
RECURSIVE factorial_loop(_, _)
factorial_loop(n, result) ==
    IF n > 0 THEN factorial_loop(n - 1, IntTimes(result, n)) ELSE result

\* factorial(number): int result = 1; the loop; return result (as long)
factorial(n) == factorial_loop(n, 1)

(***************************************************************************)
(* a call of one of these functions                                        *)
(***************************************************************************)
MaxExponent == 3

MaxModArg == 2

MaxFloorArg == 3

Half == FDiv(FromInt(1), FromInt(2))

Tenth == FDiv(FromInt(1), FromInt(10))

\* 3e9f and 2^30, 2^31, -2^31
ThreeBillion == FMul(FromInt(3000000), FromInt(1000))

TwoTo30 == FromInt(1073741824)

TwoTo31 == FMul(FromInt(2), TwoTo30)

PowerBases == {FromInt(2), FromInt(-3), Tenth, e}

PowerExponents ==
    {FromInt(n) : n \in -1..MaxExponent}
        \cup {FAdd(FromInt(n), Half) : n \in -1..MaxExponent - 1}
        \cup {TinyComp, Tenth}

ModDividends ==
    {FromInt(n) : n \in -(MaxModArg + 5)..(MaxModArg + 5)}
        \cup {FAdd(FromInt(n), Half) : n \in -MaxModArg..MaxModArg}
        \cup {Tenth, ThreeBillion, TwoTo31, FNeg(TwoTo31)}

ModDivisors ==
    {FromInt(n) : n \in -MaxModArg..MaxModArg} \cup {Tenth, Half, TinyComp}

RoundingArgs ==
    {FromInt(n) : n \in -MaxFloorArg..MaxFloorArg}
        \cup {FAdd(FromInt(n), Half) : n \in -MaxFloorArg..MaxFloorArg - 1}
        \cup {Tenth, FNeg(Tenth), TinyComp, FromInt(16777216),
              TwoTo30, FNeg(TwoTo30), FNeg(TwoTo31), TwoTo31, ThreeBillion}

\* the arguments of round: these, and numbers with the fractional parts 1/4
\* and 3/4
RoundArgs ==
    RoundingArgs
        \cup {FAdd(FromInt(n), FDiv(FromInt(c), FromInt(4))) :
                 n \in -MaxFloorArg..MaxFloorArg - 1, c \in {1, 3}}

MaxFactorialArg == 21

FactorialArgs == -2..MaxFactorialArg

MathFns == {"power", "exp", "mod", "floor", "ceil", "round", "factorial"}

MathArgs(f) ==
    CASE f = "power" -> {<<b, x>> : b \in PowerBases, x \in PowerExponents}
      [] f = "exp" -> {<<x>> : x \in PowerExponents}
      [] f = "mod" -> {<<a, b>> : a \in ModDividends, b \in ModDivisors}
      [] f \in {"floor", "ceil"} -> {<<x>> : x \in RoundingArgs}
      [] f = "round" -> {<<x>> : x \in RoundArgs}
      [] f = "factorial" -> {<<n>> : n \in FactorialArgs}

\* an int as a returned value
IntVal(n) == [k |-> "i", n |-> n]

MathInit ==
    /\ fn \in MathFns
    /\ args \in MathArgs(fn)
    /\ loc = <<>>
    /\ fpc = "called"
    /\ fret = FZero
    /\ SqrtIdle
    /\ VecIdle
    /\ MatIdle
    /\ QuatIdle
    /\ ArgIdle

notCallVars == <<sqrtVars, vecVars, matVars, quatVars, argVars>>

\* power(base, exponent); loc is the final value of i
Math_power ==
    /\ fn = "power"
    /\ fpc = "called"
    /\ fret' = power(args[1], args[2])
    /\ loc' = <<power_multiplications(args[1], args[2])>>
    /\ fpc' = "returned"
    /\ UNCHANGED <<fn, args>>
    /\ UNCHANGED notCallVars

\* exp(exponent)
Math_exp ==
    /\ fn = "exp"
    /\ fpc = "called"
    /\ fret' = exp(args[1])
    /\ fpc' = "returned"
    /\ UNCHANGED <<fn, args, loc>>
    /\ UNCHANGED notCallVars

\* mod(a, b)
Math_mod ==
    /\ fn = "mod"
    /\ fpc = "called"
    /\ fret' \in mod(args[1], args[2])
    /\ fpc' = "returned"
    /\ UNCHANGED <<fn, args, loc>>
    /\ UNCHANGED notCallVars

\* floor(number)
Math_floor ==
    /\ fn = "floor"
    /\ fpc = "called"
    /\ \E r \in floor(args[1]) : fret' = IntVal(r)
    /\ fpc' = "returned"
    /\ UNCHANGED <<fn, args, loc>>
    /\ UNCHANGED notCallVars

\* ceil(number)
Math_ceil ==
    /\ fn = "ceil"
    /\ fpc = "called"
    /\ \E r \in ceil(args[1]) : fret' = IntVal(r)
    /\ fpc' = "returned"
    /\ UNCHANGED <<fn, args, loc>>
    /\ UNCHANGED notCallVars

\* round(number)
Math_round ==
    /\ fn = "round"
    /\ fpc = "called"
    /\ \E r \in round(args[1]) : fret' = IntVal(r)
    /\ fpc' = "returned"
    /\ UNCHANGED <<fn, args, loc>>
    /\ UNCHANGED notCallVars

\* factorial(number)
Math_factorial ==
    /\ fn = "factorial"
    /\ fpc = "called"
    /\ fret' = IntVal(factorial(args[1]))
    /\ fpc' = "returned"
    /\ UNCHANGED <<fn, args, loc>>
    /\ UNCHANGED notCallVars

MathNext ==
    \/ Math_power
    \/ Math_exp
    \/ Math_mod
    \/ Math_floor
    \/ Math_ceil
    \/ Math_round
    \/ Math_factorial

SpecMath == MathInit /\ [][MathNext]_vars

Returned(f) == fn = f /\ fpc = "returned"

\* x has no fractional part
IsIntegral(x) ==
    \/ x.m = 0
    \/ x.e >= 0
    \/ (-x.e < MantBits /\ IAbs(x.m) % Pow2(-x.e) = 0)

\* n is x without its fractional part: the integer between 0 and x nearest to x
IsTruncOf(n, x) ==
    /\ n = 0 \/ ISign(n) = Sgn(x)
    /\ \/ Eq(IntToFloat(n), x)
       \/ /\ IAbs(n) < Pow2(MantBits)
          /\ Lt(FromInt(IAbs(n)), Abs(x))
          /\ Lt(Abs(x), FromInt(IAbs(n) + 1))

\* base multiplied n times into 1.0f
RECURSIVE RepeatedProduct(_, _)
RepeatedProduct(base, n) ==
    IF n = 0 THEN FromInt(1) ELSE Mul(RepeatedProduct(base, n - 1), base)

\* the truncated integer value of exponent, 0 when exponent <= 0
TruncatedExponent(x) ==
    IF Le(x, Lit(0)) THEN 0 ELSE CHOOSE n \in 0..MaxExponent + 1 : IsTruncOf(n, x)

\* the least integer that is not below exponent, 0 when exponent <= 0
RaisedExponent(x) ==
    IF Le(x, Lit(0)) THEN 0
    ELSE CHOOSE n \in 0..MaxExponent + 2 :
             Le(x, FromInt(n)) /\ (n = 0 \/ Lt(FromInt(n - 1), x))

C18_ModFractionalQuotient ==
    Returned("mod") =>
        /\ Lt(Lit(-1), fret) /\ Lt(fret, Lit(1))
        /\ Eq(args[2], Lit(0)) => Eq(fret, Lit(0))
        /\ ~Eq(args[2], Lit(0)) =>
               /\ IsIntegral(Sub(Div(args[1], args[2]), fret))
               /\ Eq(fret, Lit(0)) \/ Sgn(fret) = Sgn(Div(args[1], args[2]))

C22_RoundNearest ==
    (Returned("round") /\ InIntRange(args[1])) =>
        Le(Abs(Sub(IntToFloat(fret.n), args[1])), Half)

(***************************************************************************)
(* `double` arithmetic, as far as sin uses it.  A double is                *)
(* [s |-> sign, m |-> mantissa, e |-> exponent], of value s * m * 2^e; the *)
(* mantissa, of up to 53 bits, is a sequence of base-4096 digits, the      *)
(* least significant first, and <<>> for 0.  Exponents stay in the normal  *)
(* range of double for the floats of this module.                          *)
(***************************************************************************)
DoubleBits == 53

Base == 4096

DigitBits == 12

BDigit(a, j) == IF j >= 1 /\ j <= Len(a) THEN a[j] ELSE 0

\* a without its leading zero digits
RECURSIVE BTrim(_)
BTrim(a) ==
    IF a = <<>> THEN a
    ELSE IF a[Len(a)] = 0 THEN BTrim(SubSeq(a, 1, Len(a) - 1))
    ELSE a

\* the number of bits of a trimmed number
BBitLen(a) ==
    IF a = <<>> THEN 0 ELSE (DigitBits * (Len(a) - 1)) + BitLen(a[Len(a)])

\* the digits of an int
FromSmall(n) == BTrim(<<n % Base, (n \div Base) % Base, n \div (Base * Base)>>)

\* the int of a number below 2^31
RECURSIVE ToSmall(_)
ToSmall(a) ==
    IF a = <<>> THEN 0 ELSE a[1] + (Base * ToSmall(SubSeq(a, 2, Len(a))))

\* digits j, j + 1, ... of (t0 + Base * t1) * b, given the carry into digit j
RECURSIVE BMulFrom(_, _, _, _, _)
BMulFrom(t0, t1, b, j, carry) ==
    IF j > Len(b) + 2 THEN <<>>
    ELSE Let((t0 * BDigit(b, j)) + (t1 * BDigit(b, j - 1)) + carry, LAMBDA col :
             <<col % Base>> \o BMulFrom(t0, t1, b, j + 1, col \div Base))

\* n * b for an int n < 2^24
BMul(n, b) == BTrim(BMulFrom(n % Base, n \div Base, b, 1, 0))

\* digits 1..j of a divided by d < 2^19, from digit j down, r the remainder so far
RECURSIVE BDivFrom(_, _, _, _)
BDivFrom(a, d, j, r) ==
    IF j = 0 THEN [quo |-> <<>>, rem |-> r]
    ELSE Let((r * Base) + a[j], LAMBDA cur :
         Let(BDivFrom(a, d, j - 1, cur % d), LAMBDA rest :
             [quo |-> Append(rest.quo, cur \div d), rem |-> rest.rem]))

\* bit number pos of a (bit 0 is the lowest)
BBit(a, pos) == (BDigit(a, (pos \div DigitBits) + 1) \div Pow2(pos % DigitBits)) % 2

\* one of the bits of a below bit pos is set
BLowNonzero(a, pos) ==
    \/ \E j \in 1..(pos \div DigitBits) : BDigit(a, j) # 0
    \/ BDigit(a, (pos \div DigitBits) + 1) % Pow2(pos % DigitBits) # 0

\* a without its sh lowest bits
BShr(a, sh) ==
    BTrim([j \in 1..(Len(a) - (sh \div DigitBits)) |->
              (a[j + (sh \div DigitBits)] \div Pow2(sh % DigitBits))
            + ((BDigit(a, j + (sh \div DigitBits) + 1) % Pow2(sh % DigitBits))
                   * Pow2(DigitBits - (sh % DigitBits)))])

\* a + 1
RECURSIVE BInc(_)
BInc(a) ==
    IF a = <<>> THEN <<1>>
    ELSE IF a[1] + 1 < Base THEN <<a[1] + 1>> \o SubSeq(a, 2, Len(a))
    ELSE <<0>> \o BInc(SubSeq(a, 2, Len(a)))

\* a (with nonzero bits below it if sticky) to nb bits, to nearest, ties to
\* even; sh is the number of bits dropped
BRoundTo(a, sticky, nb) ==
    IF BBitLen(a) <= nb THEN [m |-> a, sh |-> 0]
    ELSE Let(BBitLen(a) - nb, LAMBDA sh :
         Let(IF /\ BBit(a, sh - 1) = 1
                /\ (sticky \/ BLowNonzero(a, sh - 1) \/ BBit(a, sh) = 1)
             THEN BInc(BShr(a, sh)) ELSE BShr(a, sh),
             LAMBDA up :
                 IF BBitLen(up) > nb THEN [m |-> BShr(up, 1), sh |-> sh + 1]
                 ELSE [m |-> up, sh |-> sh]))

DZero == [s |-> 1, m |-> <<>>, e |-> 0]

\* the conversion of a float to double
DFromFloat(a) ==
    IF a.m = 0 THEN DZero
    ELSE [s |-> ISign(a.m), m |-> FromSmall(IAbs(a.m)), e |-> a.e]

\* the product of two floats in double: exact, of 48 bits at most
DMulFloats(a, b) ==
    IF a.m = 0 \/ b.m = 0 THEN DZero
    ELSE [s |-> ISign(a.m) * ISign(b.m),
          m |-> BMul(IAbs(a.m), FromSmall(IAbs(b.m))),
          e |-> a.e + b.e]

\* (double)a * x
DMulFloat(a, x) ==
    IF a.m = 0 \/ x.m = <<>> THEN DZero
    ELSE Let(BRoundTo(BMul(IAbs(a.m), x.m), FALSE, DoubleBits), LAMBDA r :
             [s |-> ISign(a.m) * x.s, m |-> r.m, e |-> a.e + x.e + r.sh])

\* the number of zero digits put below the dividend of a division
DivDigits == 3

\* x / d for an int d, 0 < d < 2^19, made a double
DDivInt(x, d) ==
    IF x.m = <<>> THEN DZero
    ELSE Let(BDivFrom(<<0, 0, 0>> \o x.m, d, Len(x.m) + DivDigits, 0), LAMBDA qr :
         Let(BRoundTo(BTrim(qr.quo), qr.rem # 0, DoubleBits), LAMBDA r :
             [s |-> x.s, m |-> r.m, e |-> x.e - (DivDigits * DigitBits) + r.sh]))

\* the bits of a double kept when it is rounded to float, the others are sticky
KeptBits == 30

\* the conversion of a double to float
DToFloat(x) ==
    IF x.m = <<>> THEN FZero
    ELSE IF BBitLen(x.m) <= KeptBits THEN FRound(x.s, ToSmall(x.m), x.e, FALSE)
    ELSE Let(BBitLen(x.m) - KeptBits, LAMBDA sh :
             FRound(x.s, ToSmall(BShr(x.m, sh)), x.e + sh, BLowNonzero(x.m, sh)))

(***************************************************************************)
(* EngineMath: sin, cos                                                    *)
(***************************************************************************)
\* the least float that is >= 0.0000001 (a double): fabs(currentTerm), a
\* float, is >= 0.0000001 exactly when it is >= this float
SinThreshold == [k |-> "f", m |-> 14073749, e |-> -47]

\* fabs(currentTerm) >= 0.0000001 || n == 0
sin_continues(currentTerm, n) == Le(SinThreshold, Abs(currentTerm)) \/ n = 0

\* (-1.0 * angle * angle) / ((2.0 * n) * (2.0 * n + 1.0)), in double
sin_ratio(angle, n) ==
    DDivInt(DMulFloats(FNeg(angle), angle), (2 * n) * ((2 * n) + 1))

\* the loop of sin from the state (n, result, currentTerm): <<result, n>> at its end
RECURSIVE sin_loop(_, _, _, _)
sin_loop(angle, n, result, currentTerm) ==
    IF sin_continues(currentTerm, n)
    THEN sin_loop(angle, n + 1, FAdd(result, currentTerm),
                  DToFloat(DMulFloat(currentTerm, sin_ratio(angle, n + 1))))
    ELSE <<result, n>>

sin(angle) == sin_loop(ToF(angle), 0, FZero, ToF(angle))[1]

\* 3.14159265f and 6.28318530f
CosPi == [k |-> "f", m |-> 13176795, e |-> -22]

CosTwoPi == [k |-> "f", m |-> 13176795, e |-> -21]

\* while (radians > 3.14159265f) radians -= 6.28318530f;
RECURSIVE cos_reduceDown(_)
cos_reduceDown(radians) ==
    IF Lt(CosPi, radians) THEN cos_reduceDown(Sub(radians, CosTwoPi)) ELSE radians

\* while (radians < -3.14159265f) radians += 6.28318530f;
RECURSIVE cos_reduceUp(_)
cos_reduceUp(radians) ==
    IF Lt(radians, FNeg(CosPi)) THEN cos_reduceUp(Add(radians, CosTwoPi)) ELSE radians

\* the series loop of cos from the state (j, term, result, sign), j the int i
RECURSIVE cos_loop(_, _, _, _, _)
cos_loop(x2, j, term, result, sign) ==
    IF j <= 10
    THEN Let(Mul(term, Div(x2, FromInt(j * (j - 1)))), LAMBDA t :
             cos_loop(x2, j + 2, t, Add(result, Mul(FromInt(sign), t)), -sign))
    ELSE result

cos(radians) ==
    Let(cos_reduceUp(cos_reduceDown(ToF(radians))), LAMBDA r :
        cos_loop(Mul(r, r), 2, FromInt(1), FromInt(1), -1))

(***************************************************************************)
(* Matrix2x2, Matrix4x4: setScale, setTranslation, setRotation             *)
(***************************************************************************)
\* EU::Math::cos and EU::Math::sin: no namespace EU::Math is among the
\* sources; they are read as the cos and sin of EngineMath
EU_Math_cos(radians) == cos(radians)

EU_Math_sin(radians) == sin(radians)

\* Matrix2x2::setScale(scaleX, scaleY)
Matrix2x2_setScale(m, scaleX, scaleY) ==
    [m EXCEPT ![1][1] = scaleX, ![1][2] = Lit(0),
              ![2][1] = Lit(0), ![2][2] = scaleY]

\* Matrix2x2::setRotation(radians), c and s its locals
Matrix2x2_setRotation(m, radians) ==
    Let2(EU_Math_cos(radians), EU_Math_sin(radians), LAMBDA c, s :
        [m EXCEPT ![1][1] = c, ![1][2] = Neg(s),
                  ![2][1] = s, ![2][2] = c])

\* for (i < n) for (j < n) m[i][j] = 0.0f;
Matrix4x4_cleared(m, n) ==
    [ii \in 1..4 |-> [jj \in 1..4 |->
        IF ii <= n /\ jj <= n THEN Lit(0) ELSE m[ii][jj]]]

\* Matrix4x4::setScale(scaX, scaY, scaZ)
Matrix4x4_setScale(m, scaX, scaY, scaZ) ==
    [Matrix4x4_cleared(m, 4) EXCEPT ![1][1] = scaX, ![2][2] = scaY,
                                    ![3][3] = scaZ, ![4][4] = Lit(1)]

\* Matrix4x4::setTranslation(tx, ty, tz)
Matrix4x4_setTranslation(m, tx, ty, tz) ==
    [Matrix4x4_cleared(m, 4) EXCEPT ![1][1] = Lit(1), ![2][2] = Lit(1),
                                    ![3][3] = Lit(1), ![4][4] = Lit(1),
                                    ![1][4] = tx, ![2][4] = ty, ![3][4] = tz]

\* setRotation that writes the six entries of the rotation only
Matrix4x4_setRotation_partial(m, radians) ==
    Let2(EU_Math_cos(radians), EU_Math_sin(radians), LAMBDA c, s :
        [m EXCEPT ![1][1] = c, ![1][2] = Neg(s), ![2][1] = s, ![2][2] = c,
                  ![3][3] = Lit(1), ![4][4] = Lit(1)])

\* Matrix4x4::setRotation(radians), c and s its locals
Matrix4x4_setRotation(m, radians) ==
    Let2(EU_Math_cos(radians), EU_Math_sin(radians), LAMBDA c, s :
        [Matrix4x4_cleared(m, 4) EXCEPT ![1][1] = c, ![1][2] = Neg(s),
                                        ![2][1] = s, ![2][2] = c,
                                        ![3][3] = Lit(1), ![4][4] = Lit(1)])

MatSetScale(m, sc) ==
    CASE Len(m) = 2 -> Matrix2x2_setScale(m, sc[1], sc[2])
      [] Len(m) = 4 -> Matrix4x4_setScale(m, sc[1], sc[2], sc[3])

MatSetRotation(m, radians) ==
    CASE Len(m) = 2 -> Matrix2x2_setRotation(m, radians)
      [] Len(m) = 4 -> Matrix4x4_setRotation(m, radians)

(***************************************************************************)
(* two matrices of one class (mat and operand) and the same setter call    *)
(* made on both                                                            *)
(***************************************************************************)
MaxSetArg == 1

SetArgs == {FromInt(n) : n \in -1..MaxSetArg} \cup {Tenth}

\* PI / 2 and -2.5f among the angles
SetAngles == {FZero, FromInt(1), FDiv(CosPi, FromInt(2)), FNeg(FAdd(FromInt(2), Half))}

\* what a matrix can hold before the call: the default and the static
\* matrices, equal and distinct entries, and entries that are not numbers
SetPriors(n) ==
    {MatCtor(n), MatStaticIdentity(n), Indeterminate(n),
     [r \in 1..n |-> [c \in 1..n |-> Lit(0)]],
     [r \in 1..n |-> [c \in 1..n |-> FromInt(7)]],
     [r \in 1..n |-> [c \in 1..n |-> FromInt((4 * r) + c)]]}

MatSetInit ==
    /\ \E n \in {2, 3, 4} : mat \in SetPriors(n) /\ operand \in SetPriors(n)
    /\ factor = FZero
    /\ FrameIdle
    /\ mpre = <<>>
    /\ mret = <<>>
    /\ mop = "elems"
    /\ args = <<>>
    /\ fn = "idle"
    /\ loc = <<>>
    /\ fpc = "idle"
    /\ fret = FZero
    /\ SqrtIdle
    /\ VecIdle
    /\ QuatIdle

setVars == <<mat, operand, mpre, mop, args>>

\* how the contents of two matrices of one class compare
PriorContents(m, other) ==
    IF m = other THEN "equal"
    ELSE IF \A r \in 1..Len(m) : \A c \in 1..Len(m) : m[r][c] # other[r][c]
    THEN "different in every entry"
    ELSE "different"

notSetVars ==
    <<sqrtVars, vecVars, quatVars, mret, factor, argpre, aliased, calls,
      fn, loc, fpc, fret>>

\* mat.setIdentity(); operand.setIdentity();
MatSet_identity ==
    /\ mat # <<>>
    /\ mat' = MatSetIdentity(mat)
    /\ operand' = MatSetIdentity(operand)
    /\ mpre' = PriorContents(mat, operand)
    /\ mop' = "setIdentity"
    /\ args' = <<>>
    /\ UNCHANGED notSetVars

\* mat.setScale(x, y[, z]); operand.setScale(x, y[, z]);
MatSet_scale ==
    /\ Len(mat) \in {2, 4}
    /\ \E x \in SetArgs, y \in SetArgs, z \in SetArgs :
           /\ Len(mat) = 2 => z = FZero
           /\ args' = IF Len(mat) = 2 THEN <<x, y>> ELSE <<x, y, z>>
           /\ mat' = MatSetScale(mat, <<x, y, z>>)
           /\ operand' = MatSetScale(operand, <<x, y, z>>)
    /\ mpre' = PriorContents(mat, operand)
    /\ mop' = "setScale"
    /\ UNCHANGED notSetVars

\* mat.setTranslation(tx, ty, tz); operand.setTranslation(tx, ty, tz);
MatSet_translation ==
    /\ Len(mat) = 4
    /\ \E tx \in SetArgs, ty \in SetArgs, tz \in SetArgs :
           /\ args' = <<tx, ty, tz>>
           /\ mat' = Matrix4x4_setTranslation(mat, tx, ty, tz)
           /\ operand' = Matrix4x4_setTranslation(operand, tx, ty, tz)
    /\ mpre' = PriorContents(mat, operand)
    /\ mop' = "setTranslation"
    /\ UNCHANGED notSetVars

\* mat.setRotation(radians); operand.setRotation(radians);
MatSet_rotation ==
    /\ Len(mat) \in {2, 4}
    /\ \E radians \in SetAngles :
           /\ args' = <<radians>>
           /\ mat' = MatSetRotation(mat, radians)
           /\ operand' = MatSetRotation(operand, radians)
    /\ mpre' = PriorContents(mat, operand)
    /\ mop' = "setRotation"
    /\ UNCHANGED notSetVars

MatSetNext ==
    \/ MatSet_identity
    \/ MatSet_scale
    \/ MatSet_translation
    \/ MatSet_rotation

SpecMatSet == MatSetInit /\ [][MatSetNext]_vars

Setters == {"setIdentity", "setScale", "setTranslation", "setRotation"}

\* C16: after setIdentity, setScale, setTranslation or setRotation no entry of
\* the matrix is left from before: two matrices of different prior contents are
\* equal, entry by entry, after the same call.
C16_SettersOverwrite ==
    (mop \in Setters) => (mat = operand /\ MatFinite(mat))

\* setRotation has been called with a nonzero angle on two Matrix4x4 that
\* differed in every entry
C16_Witness ==
    /\ mop = "setRotation"
    /\ Len(mat) = 4
    /\ ~Eq(args[1], Lit(0))
    /\ mpre = "different in every entry"

(***************************************************************************)
(* Quaternion: fromAxisAngle, rotate                                       *)
(***************************************************************************)
\* static fromAxisAngle(const CVector3& axis, float angle)
Quaternion_fromAxisAngle(axis, angle) ==
    Let(Mul(angle, Div(Lit(1), Lit(2))), LAMBDA halfAngle :
    Let2(sin(halfAngle), cos(halfAngle), LAMBDA s, c :
        <<Mul(axis[1], s), Mul(axis[2], s), Mul(axis[3], s), c>>))

\* rotate with the factors in the other order: inverse() * qv * (*this)
Quaternion_rotate_reversed(a, vec) ==
    Let(Quaternion_mul(Quaternion_mul(Quaternion_inverse(a),
                                      <<vec[1], vec[2], vec[3], Lit(0)>>), a),
        LAMBDA result : <<result[1], result[2], result[3]>>)

\* rotate(const CVector3& v): qv(v.x, v.y, v.z, 0.f); (*this) * qv * inverse()
Quaternion_rotate(a, vec) ==
    Let(Quaternion_mul(Quaternion_mul(a, <<vec[1], vec[2], vec[3], Lit(0)>>),
                       Quaternion_inverse(a)),
        LAMBDA result : <<result[1], result[2], result[3]>>)

(***************************************************************************)
(* a Quaternion, made from its components or from an axis and an angle,    *)
(* and the rotation of a CVector3 (operand) by it                          *)
(***************************************************************************)
MaxRot == 2

\* EU::Constants::PI
PI == [k |-> "f", m |-> 13176795, e |-> -22]

\* a float whose square is a subnormal number
SmallComp == FMul(Tenth, FRound(1, 1, -66, FALSE))

\* exact and binary32 components
RotScalars ==
    {Lit(n) : n \in 0..MaxRot}
        \cup {FromInt(n) : n \in 1..MaxRot}
        \cup {Div(Lit(1), Lit(2)), Tenth, FDiv(FromInt(3), FromInt(10)),
              SmallComp, TinyComp}

\* the quaternions (0, s, 0, c)
RotQuats == {<<Lit(0), s, Lit(0), c>> : s \in RotScalars, c \in RotScalars}

\* quaternions of any direction, of length 1 and not, and (0,0,0,0) in binary32
RotGeneralQuats ==
    {<<Lit(1), Lit(2), Lit(-1), Lit(3)>>, <<Lit(1), Lit(0), Lit(0), Lit(0)>>,
     <<Lit(-2), Lit(1), Lit(2), Lit(0)>>,
     <<Div(Lit(1), Lit(2)), Div(Lit(1), Lit(2)), Div(Lit(1), Lit(2)), Div(Lit(1), Lit(2))>>,
     <<FZero, FZero, FZero, FZero>>}

\* the factors of the multiples of a quaternion
RotFactors == {Lit(2), Lit(-3), Div(Lit(1), Lit(2)), FromInt(2)}

RotAxes ==
    {<<Lit(1), Lit(0), Lit(0)>>, <<Lit(0), Lit(1), Lit(0)>>, <<Lit(0), Lit(0), Lit(1)>>}

\* PI / 2, -PI / 2, PI and 1
RotAngles == {FDiv(PI, FromInt(2)), FNeg(FDiv(PI, FromInt(2))), PI, FromInt(1)}

RotVecs ==
    {<<Lit(1), Lit(0), Lit(0)>>, <<Lit(0), Lit(0), Lit(1)>>,
     <<Lit(1), Lit(2), Lit(-1)>>,
     <<FromInt(1), FZero, FZero>>, <<Tenth, FromInt(2), FromInt(-1)>>}

RotInit ==
    /\ operand \in RotVecs
    /\ factor = FZero
    /\ FrameIdle
    /\ q = <<>>
    /\ qpre = <<>>
    /\ qret = <<>>
    /\ qop = "none"
    /\ SqrtIdle
    /\ VecIdle
    /\ MatIdle
    /\ CallIdle

notRotVars ==
    <<sqrtVars, vecVars, matVars, argVars, fn, loc, fpc, fret>>

\* Quaternion q(0, s, 0, c);
Rot_elems ==
    /\ qop = "none"
    /\ q' \in RotQuats \cup RotGeneralQuats
    /\ qop' = "ctor"
    /\ UNCHANGED <<qpre, qret, args>>
    /\ UNCHANGED notRotVars

\* Quaternion q = Quaternion::fromAxisAngle(axis, angle); args keeps the arguments
Rot_fromAxisAngle ==
    /\ qop = "none"
    /\ \E axis \in RotAxes, angle \in RotAngles :
           /\ q' = Quaternion_fromAxisAngle(axis, angle)
           /\ args' = <<axis, angle>>
    /\ qop' = "fromAxisAngle"
    /\ UNCHANGED <<qpre, qret>>
    /\ UNCHANGED notRotVars

\* q.rotate(operand)
Rot_rotate ==
    /\ qop \in {"ctor", "fromAxisAngle"}
    /\ qpre' = q
    /\ qret' = Quaternion_rotate(q, operand)
    /\ qop' = "rotate"
    /\ UNCHANGED <<q, args>>
    /\ UNCHANGED notRotVars

\* Quaternion(k * q.x, k * q.y, k * q.z, k * q.w).rotate(operand), after
\* q.rotate(operand); factor is k and vret what the call returns
Rot_rotateScaled ==
    /\ qop = "rotate"
    /\ \E k \in RotFactors :
           /\ factor' = k
           /\ vret' = Quaternion_rotate(<<Mul(k, q[1]), Mul(k, q[2]), Mul(k, q[3]),
                                          Mul(k, q[4])>>, operand)
    /\ qop' = "rotate scaled"
    /\ UNCHANGED <<q, qpre, qret, args, operand, argpre, aliased, calls>>
    /\ UNCHANGED <<v, vpre, vop, sqrtVars, matVars, fn, loc, fpc, fret>>

RotNext ==
    \/ Rot_elems
    \/ Rot_fromAxisAngle
    \/ Rot_rotate
    \/ Rot_rotateScaled

SpecRot == RotInit /\ [][RotNext]_vars

UnitX == <<Lit(1), Lit(0), Lit(0)>>

MinusUnitZ == <<Lit(0), Lit(0), Lit(-1)>>

\* q is (0, s, 0, c) with s = c > 0
IsQuarterTurnAboutY(a) ==
    /\ Eq(a[1], Lit(0))
    /\ Eq(a[3], Lit(0))
    /\ Eq(a[2], a[4])
    /\ Lt(Lit(0), a[2])

\* q has been made by fromAxisAngle((0,1,0), PI / 2)
FromQuarterTurnAboutY ==
    /\ args # <<>>
    /\ VecEq(args[1], <<Lit(0), Lit(1), Lit(0)>>)
    /\ Eq(args[2], Div(PI, Lit(2)))

\* a value of the exact reading, not a binary32 value
IsExact(x) == x.k = "q"

\* 2^-22
RotTol == Div(Lit(1), Lit(4194304))

\* the least normal binary32 number, 2^-126
MinNormal == FRound(1, 1, -126, FALSE)

Store(recv, arg, al) == IF al THEN <<recv>> ELSE <<recv, arg>>

Ref(al) == IF al THEN 1 ELSE 2

\* the argument a call has read, from the objects before the call
ArgRead(recv, arg, al) == IF al THEN recv ELSE arg

\* the value that x op y assigns to x
CompoundValue(op, x, y) ==
    CASE op \in {"+=", "move"} -> Add(x, y)
      [] op = "-=" -> Sub(x, y)
      [] op \in {"*=", "scale"} -> Mul(x, y)
      [] op = "/=" -> Div(x, y)
      [] op \in {"setPosition", "setScale", "setOrigin"} -> y

\* CVector2/3/4 operator+=, operator-=, move, scale, setPosition, setScale,
\* setOrigin: x op otro.x; y op otro.y; ... from component j on
RECURSIVE Vec_assignFrom(_, _, _, _)
Vec_assignFrom(op, st, ref, j) ==
    IF j > Len(st[1]) THEN st
    ELSE Vec_assignFrom(op,
                        [st EXCEPT ![1][j] = CompoundValue(op, st[1][j], st[ref][j])],
                        ref, j + 1)

Vec_compound(op, st, ref) == Vec_assignFrom(op, st, ref, 1)

\* CVector2/3/4 operator*=(float), operator/=(float): x op fac; y op fac; ...
Vec_scalarCompound(op, a, fac) ==
    [j \in 1..Len(a) |-> CompoundValue(op, a[j], fac)]

\* Matrix2x2/3x3/4x4 operator+=, operator-=: m[i][j] op otro.m[i][j], from
\* the entry number n (row by row) on
RECURSIVE Mat_assignFrom(_, _, _, _)
Mat_assignFrom(op, st, ref, n) ==
    IF n >= Len(st[1]) * Len(st[1]) THEN st
    ELSE Let2((n \div Len(st[1])) + 1, (n % Len(st[1])) + 1, LAMBDA r, c :
             Mat_assignFrom(op,
                            [st EXCEPT ![1][r][c] =
                                 CompoundValue(op, st[1][r][c], st[ref][r][c])],
                            ref, n + 1))

Mat_compound(op, st, ref) == Mat_assignFrom(op, st, ref, 0)

\* Matrix2x2/3x3/4x4 operator*=(float)
Mat_scalarCompound(m, sca) ==
    [r \in 1..Len(m) |-> [c \in 1..Len(m) |-> Mul(m[r][c], sca)]]

\* operator*= that assigns x, y, z and w one after the other
Quaternion_timesAssign_inPlace(st, ref) ==
    Let([st EXCEPT ![1][1] = Quaternion_mul(st[1], st[ref])[1]], LAMBDA s1 :
    Let([s1 EXCEPT ![1][2] = Quaternion_mul(s1[1], s1[ref])[2]], LAMBDA s2 :
    Let([s2 EXCEPT ![1][3] = Quaternion_mul(s2[1], s2[ref])[3]], LAMBDA s3 :
        [s3 EXCEPT ![1][4] = Quaternion_mul(s3[1], s3[ref])[4]])))

\* Quaternion::operator*=: *this = *this * otro;
Quaternion_timesAssign(st, ref) ==
    [st EXCEPT ![1] = Quaternion_mul(st[1], st[ref])]

(***************************************************************************)
(* the operators that return a value                                       *)
(***************************************************************************)
VecPlus(a, otro) ==
    CASE Len(a) = 2 -> CVector2_plus(a, otro)
      [] Len(a) = 3 -> CVector3_plus(a, otro)
      [] Len(a) = 4 -> CVector4_plus(a, otro)

VecMinus(a, otro) ==
    CASE Len(a) = 2 -> CVector2_minus(a, otro)
      [] Len(a) = 3 -> CVector3_minus(a, otro)
      [] Len(a) = 4 -> CVector4_minus(a, otro)

VecTimes(a, fac) ==
    CASE Len(a) = 2 -> CVector2_times(a, fac)
      [] Len(a) = 3 -> CVector3_times(a, fac)
      [] Len(a) = 4 -> CVector4_times(a, fac)

\* CVector2/3/4 operator/(float)
Vec_dividedBy(a, fac) == [j \in 1..Len(a) |-> Div(a[j], fac)]

\* CVector2/3/4 dot: x * other.x + y * other.y + ...
Vec_dot(a, other) ==
    CASE Len(a) = 2 -> Add(Mul(a[1], other[1]), Mul(a[2], other[2]))
      [] Len(a) = 3 -> Add(Add(Mul(a[1], other[1]), Mul(a[2], other[2])),
                           Mul(a[3], other[3]))
      [] Len(a) = 4 -> Add(Add(Add(Mul(a[1], other[1]), Mul(a[2], other[2])),
                               Mul(a[3], other[3])),
                           Mul(a[4], other[4]))

\* CVector3::cross
CVector3_cross(a, otro) ==
    <<Sub(Mul(a[2], otro[3]), Mul(a[3], otro[2])),
      Sub(Mul(a[3], otro[1]), Mul(a[1], otro[3])),
      Sub(Mul(a[1], otro[2]), Mul(a[2], otro[1]))>>

\* Matrix2x2/3x3/4x4 operator+ and operator-
Mat_plus(m, otro) ==
    [r \in 1..Len(m) |-> [c \in 1..Len(m) |-> Add(m[r][c], otro[r][c])]]

Mat_minus(m, otro) ==
    [r \in 1..Len(m) |-> [c \in 1..Len(m) |-> Sub(m[r][c], otro[r][c])]]

\* Matrix2x2/3x3/4x4 transpose
Mat_transpose(m) == [r \in 1..Len(m) |-> [c \in 1..Len(m) |-> m[c][r]]]

\* what a const operator of a vector returns
VecConst(op, a, otro, fac) ==
    CASE op = "+" -> VecPlus(a, otro)
      [] op = "-" -> VecMinus(a, otro)
      [] op = "*" -> VecTimes(a, fac)
      [] op = "/" -> Vec_dividedBy(a, fac)
      [] op = "==" -> <<VecEq(a, otro)>>
      [] op = "dot" -> <<Vec_dot(a, otro)>>
      [] op = "cross" -> IF Len(a) = 3 THEN CVector3_cross(a, otro) ELSE <<>>
      [] op = "normalized" -> VecNormalized(a)
      [] op = "lerp" -> VecLerp(a, otro, fac)

\* what a const operator of a matrix returns
MatConst(op, m, otro, sca) ==
    CASE op = "+" -> Mat_plus(m, otro)
      [] op = "-" -> Mat_minus(m, otro)
      [] op = "*" -> Mat_scalarCompound(m, sca)
      [] op = "==" -> <<MatEq(m, otro)>>
      [] op = "transpose" -> Mat_transpose(m)
      [] op = "inverse" -> IF Len(m) < 4 THEN MatInverse(m) ELSE <<>>

\* what a const operator of a quaternion returns
QuatConst(op, a, otro, t) ==
    CASE op = "*" -> Quaternion_mul(a, otro)
      [] op = "==" -> <<QuatEq(a, otro)>>
      [] op = "inverse" -> Quaternion_inverse(a)
      [] op = "normalized" -> Quaternion_normalized(a)
      [] op = "rotate" -> Quaternion_rotate(a, <<otro[1], otro[2], otro[3]>>)
      [] op = "lerp" -> Quaternion_lerp(a, otro, t)

(***************************************************************************)
(* a receiver (v, mat or q), an object of its class (operand), a float     *)
(* (factor), and sequences of calls on the receiver                        *)
(***************************************************************************)
MaxCalls == 2

VecConstOps == {"+", "-", "*", "/", "==", "dot", "cross", "normalized", "lerp"}

VecCompoundOps ==
    {"+=", "-=", "move", "scale", "setPosition", "setScale", "setOrigin"}

VecScalarOps == {"*=", "/="}

MatConstOps == {"+", "-", "*", "==", "transpose", "inverse"}

MatCompoundOps == {"+=", "-="}

QuatConstOps == {"*", "==", "inverse", "normalized", "rotate", "lerp"}

FrameVec(n) == [j \in 1..n |-> FromInt(j)]

FrameVecArg(n) == [j \in 1..n |-> IF j = 1 THEN Tenth ELSE FromInt(1 - j)]

FrameMat(n) == [r \in 1..n |-> [c \in 1..n |-> FromInt((n * (r - 1)) + c)]]

FrameMatArg(n) ==
    [r \in 1..n |-> [c \in 1..n |-> IF r = c THEN Tenth ELSE FromInt(r - c)]]

FrameFactor == Half

FrameInit ==
    /\ \/ /\ \E n \in {2, 3, 4} : v = FrameVec(n) /\ operand = FrameVecArg(n)
          /\ vop = "ctor"
          /\ mat = <<>> /\ mop = "idle"
          /\ q = <<>> /\ qop = "idle"
       \/ /\ \E n \in {2, 3, 4} : mat = FrameMat(n) /\ operand = FrameMatArg(n)
          /\ mop = "elems"
          /\ v = <<>> /\ vop = "idle"
          /\ q = <<>> /\ qop = "idle"
       \/ /\ q = FrameVec(4) /\ operand = FrameVecArg(4)
          /\ qop = "ctor"
          /\ v = <<>> /\ vop = "idle"
          /\ mat = <<>> /\ mop = "idle"
    /\ factor = FrameFactor
    /\ vpre = <<>> /\ vret = <<>>
    /\ mpre = <<>> /\ mret = <<>>
    /\ qpre = <<>> /\ qret = <<>>
    /\ FrameIdle
    /\ SqrtIdle
    /\ CallIdle

\* one more call, with the objects as they are before it
FrameCall(al) ==
    /\ calls < MaxCalls
    /\ calls' = calls + 1
    /\ aliased' = al
    /\ argpre' = operand
    /\ UNCHANGED <<factor, sqrtVars, callVars>>

\* v op operand, v op v, v.op(operand, factor): a const operator
Frame_vecConst ==
    /\ v # <<>>
    /\ \E op \in VecConstOps, al \in BOOLEAN :
           /\ FrameCall(al)
           /\ vret' = VecConst(op, v, ArgRead(v, operand, al), factor)
           /\ vop' = op
    /\ vpre' = v
    /\ UNCHANGED <<v, operand, matVars, quatVars>>

\* v op= operand, v op= v, v.move(operand), ...
Frame_vecCompound ==
    /\ v # <<>>
    /\ \E op \in VecCompoundOps, al \in BOOLEAN :
           /\ FrameCall(al)
           /\ \E st \in {Vec_compound(op, Store(v, operand, al), Ref(al))} :
                  /\ v' = st[1]
                  /\ operand' = IF al THEN operand ELSE st[2]
           /\ vop' = op
    /\ vpre' = v
    /\ UNCHANGED <<vret, matVars, quatVars>>

\* v *= factor, v /= factor
Frame_vecScalar ==
    /\ v # <<>>
    /\ FrameCall(FALSE)
    /\ \E op \in VecScalarOps :
           /\ v' = Vec_scalarCompound(op, v, factor)
           /\ vop' = op
    /\ vpre' = v
    /\ UNCHANGED <<vret, operand, matVars, quatVars>>

\* v.normalize()
Frame_vecNormalize ==
    /\ v # <<>>
    /\ FrameCall(FALSE)
    /\ v' = VecNormalize(v)
    /\ vop' = "normalize"
    /\ vpre' = v
    /\ UNCHANGED <<vret, operand, matVars, quatVars>>

\* mat op operand, mat op mat, mat.op(): a const operator
Frame_matConst ==
    /\ mat # <<>>
    /\ \E op \in MatConstOps, al \in BOOLEAN :
           /\ FrameCall(al)
           /\ mret' = MatConst(op, mat, ArgRead(mat, operand, al), factor)
           /\ mop' = op
    /\ mpre' = mat
    /\ UNCHANGED <<mat, operand, vecVars, quatVars>>

\* mat += operand, mat += mat, mat -= operand, mat -= mat
Frame_matCompound ==
    /\ mat # <<>>
    /\ \E op \in MatCompoundOps, al \in BOOLEAN :
           /\ FrameCall(al)
           /\ \E st \in {Mat_compound(op, Store(mat, operand, al), Ref(al))} :
                  /\ mat' = st[1]
                  /\ operand' = IF al THEN operand ELSE st[2]
           /\ mop' = op
    /\ mpre' = mat
    /\ UNCHANGED <<mret, vecVars, quatVars>>

\* mat *= factor
Frame_matScalar ==
    /\ mat # <<>>
    /\ FrameCall(FALSE)
    /\ mat' = Mat_scalarCompound(mat, factor)
    /\ mop' = "*="
    /\ mpre' = mat
    /\ UNCHANGED <<mret, operand, vecVars, quatVars>>

\* q op operand, q op q, q.op(): a const operator
Frame_quatConst ==
    /\ q # <<>>
    /\ \E op \in QuatConstOps, al \in BOOLEAN :
           /\ FrameCall(al)
           /\ qret' = QuatConst(op, q, ArgRead(q, operand, al), factor)
           /\ qop' = op
    /\ qpre' = q
    /\ UNCHANGED <<q, operand, vecVars, matVars>>

\* q *= operand, q *= q
Frame_quatCompound ==
    /\ q # <<>>
    /\ \E al \in BOOLEAN :
           /\ FrameCall(al)
           /\ \E st \in {Quaternion_timesAssign(Store(q, operand, al), Ref(al))} :
                  /\ q' = st[1]
                  /\ operand' = IF al THEN operand ELSE st[2]
    /\ qop' = "*="
    /\ qpre' = q
    /\ UNCHANGED <<qret, vecVars, matVars>>

\* q.normalize()
Frame_quatNormalize ==
    /\ q # <<>>
    /\ FrameCall(FALSE)
    /\ q' = Quaternion_normalize(q)
    /\ qop' = "normalize"
    /\ qpre' = q
    /\ UNCHANGED <<qret, operand, vecVars, matVars>>

FrameNext ==
    \/ Frame_vecConst
    \/ Frame_vecCompound
    \/ Frame_vecScalar
    \/ Frame_vecNormalize
    \/ Frame_matConst
    \/ Frame_matCompound
    \/ Frame_matScalar
    \/ Frame_quatConst
    \/ Frame_quatCompound
    \/ Frame_quatNormalize

SpecFrame == FrameInit /\ [][FrameNext]_vars

\* what the operator without assignment gives for the values before the call
VecCounterpart(op, a, otro, fac) ==
    CASE op \in {"+=", "move"} -> VecPlus(a, otro)
      [] op = "-=" -> VecMinus(a, otro)
      [] op = "*=" -> VecTimes(a, fac)
      [] op = "/=" -> Vec_dividedBy(a, fac)
      [] op = "scale" -> [j \in 1..Len(a) |-> Mul(a[j], otro[j])]
      [] op \in {"setPosition", "setScale", "setOrigin"} -> otro

\* C20: a const operator leaves the receiver and its argument as they were;
\* a compound or in-place operator leaves its argument as it was and gives
\* the receiver the value that the operator without assignment returns for
\* the values before the call, also when the argument is the receiver itself
\* (v += v, m += m, q *= q).
C20_Frame ==
    /\ calls > 0 => operand = argpre
    /\ vop \in VecConstOps => v = vpre
    /\ vop \in VecCompoundOps \cup VecScalarOps =>
           v = VecCounterpart(vop, vpre, ArgRead(vpre, argpre, aliased), factor)
    /\ mop \in MatConstOps => mat = mpre
    /\ mop = "+=" => mat = Mat_plus(mpre, ArgRead(mpre, argpre, aliased))
    /\ mop = "-=" => mat = Mat_minus(mpre, ArgRead(mpre, argpre, aliased))
    /\ mop = "*=" => mat = MatConst("*", mpre, mpre, factor)
    /\ qop \in QuatConstOps => q = qpre
    /\ qop = "*=" => q = Quaternion_mul(qpre, ArgRead(qpre, argpre, aliased))

\* q *= q has been called as the second of two calls and has changed q
C20_Witness ==
    /\ qop = "*="
    /\ aliased
    /\ calls = 2
    /\ q # qpre

(***************************************************************************)
(* factorial                                                               *)
(***************************************************************************)
\* the largest n whose factorial fits a 64-bit long
LongFactorialLimit == 20

\* n! as a number of any size
RECURSIVE ExactFactorial(_)
ExactFactorial(n) ==
    IF n <= 1 THEN FromSmall(1) ELSE BMul(n, ExactFactorial(n - 1))

\* C25: factorial(n) returns n! for every n from 1 to the largest n whose
\* factorial fits the long that is returned (20), and 1 for every n <= 0; the
\* accumulator is a 32-bit int.
C25_FactorialValue ==
    Returned("factorial") =>
        /\ args[1] <= 0 => fret.n = 1
        /\ args[1] \in 1..LongFactorialLimit =>
               /\ fret.n >= 0
               /\ FromSmall(fret.n) = ExactFactorial(args[1])

(***************************************************************************)
(* sin and cos statement by statement: loc holds the locals of the call,   *)
(* fpc the loop the call is in                                             *)
(***************************************************************************)
\* int n = 0; float result = 0; float currentTerm = angle; terms lists the
\* values of currentTerm that were added to result
sin_enter(angle) ==
    [n |-> 0, result |-> FZero, currentTerm |-> angle, terms |-> <<>>]

\* result += currentTerm; n++; currentTerm *= ...;
sin_body(angle, l) ==
    [n |-> l.n + 1,
     result |-> FAdd(l.result, l.currentTerm),
     currentTerm |-> DToFloat(DMulFloat(l.currentTerm, sin_ratio(angle, l.n + 1))),
     terms |-> Append(l.terms, l.currentTerm)]

\* radians -= 6.28318530f;
cos_down(radians) == Sub(radians, CosTwoPi)

\* radians += 6.28318530f;
cos_up(radians) == Add(radians, CosTwoPi)

\* float result = 1.0f; float term = 1.0f; float x2 = radians * radians;
\* int sign = -1; int i = 2; added counts the terms added to result
cos_enter(radians) ==
    [radians |-> radians, result |-> FromInt(1), term |-> FromInt(1),
     x2 |-> Mul(radians, radians), sign |-> -1, j |-> 2, added |-> 0]

\* the body without sign *= -1
cos_body_sameSign(l) ==
    Let(Mul(l.term, Div(l.x2, FromInt(l.j * (l.j - 1)))), LAMBDA t :
        [l EXCEPT !.term = t,
                  !.result = Add(l.result, Mul(FromInt(l.sign), t)),
                  !.j = l.j + 2,
                  !.added = l.added + 1])

\* term *= x2 / (i * (i - 1)); result += sign * term; sign *= -1; i += 2
cos_body(l) ==
    Let(Mul(l.term, Div(l.x2, FromInt(l.j * (l.j - 1)))), LAMBDA t :
        [l EXCEPT !.term = t,
                  !.result = Add(l.result, Mul(FromInt(l.sign), t)),
                  !.sign = -l.sign,
                  !.j = l.j + 2,
                  !.added = l.added + 1])

MaxTrigAngle == 3

\* 2^-30, below 0.0000001
SmallAngle == FRound(1, 1, -30, FALSE)

\* 1e9f
Billion == FMul(FromInt(1000), FromInt(1000000))

\* multiples of 1/4 up to MaxTrigAngle, and angles below 0.0000001
SinAngles ==
    {FDiv(FromInt(n), FromInt(4)) : n \in -(4 * MaxTrigAngle)..(4 * MaxTrigAngle)}
        \cup {SmallAngle, FNeg(SmallAngle), TinyComp}

\* these, the bounds of the reduced range, angles some turns away from it and
\* angles whose neighbours in float are more than a turn apart
CosAngles ==
    SinAngles \cup {CosPi, FNeg(CosPi), FromInt(20), FromInt(-20), FromInt(1000),
                    Billion, FNeg(Billion)}

TrigInit ==
    /\ \/ fn = "sin" /\ \E a \in SinAngles : args = <<a>>
       \/ fn = "cos" /\ \E a \in CosAngles : args = <<a>>
    /\ loc = <<>>
    /\ fpc = "called"
    /\ fret = FZero
    /\ SqrtIdle
    /\ VecIdle
    /\ MatIdle
    /\ QuatIdle
    /\ ArgIdle

\* sin(angle): the declarations
Trig_sinEnter ==
    /\ fn = "sin"
    /\ fpc = "called"
    /\ loc' = sin_enter(args[1])
    /\ fpc' = "series"
    /\ UNCHANGED <<fn, args, fret>>
    /\ UNCHANGED notCallVars

\* one iteration of the loop of sin
Trig_sinTerm ==
    /\ fn = "sin"
    /\ fpc = "series"
    /\ sin_continues(loc.currentTerm, loc.n)
    /\ loc' = sin_body(args[1], loc)
    /\ UNCHANGED <<fn, args, fpc, fret>>
    /\ UNCHANGED notCallVars

\* the end of the loop of sin: return result;
Trig_sinReturn ==
    /\ fn = "sin"
    /\ fpc = "series"
    /\ ~sin_continues(loc.currentTerm, loc.n)
    /\ fret' = loc.result
    /\ fpc' = "returned"
    /\ UNCHANGED <<fn, args, loc>>
    /\ UNCHANGED notCallVars

\* cos(radians): the call
Trig_cosEnter ==
    /\ fn = "cos"
    /\ fpc = "called"
    /\ loc' = [radians |-> args[1]]
    /\ fpc' = "reduceDown"
    /\ UNCHANGED <<fn, args, fret>>
    /\ UNCHANGED notCallVars

\* one iteration of while (radians > 3.14159265f)
Trig_cosDown ==
    /\ fpc = "reduceDown"
    /\ Lt(CosPi, loc.radians)
    /\ loc' = [radians |-> cos_down(loc.radians)]
    /\ UNCHANGED <<fn, args, fpc, fret>>
    /\ UNCHANGED notCallVars

\* the end of while (radians > 3.14159265f)
Trig_cosDownExit ==
    /\ fpc = "reduceDown"
    /\ ~Lt(CosPi, loc.radians)
    /\ fpc' = "reduceUp"
    /\ UNCHANGED <<fn, args, loc, fret>>
    /\ UNCHANGED notCallVars

\* one iteration of while (radians < -3.14159265f)
Trig_cosUp ==
    /\ fpc = "reduceUp"
    /\ Lt(loc.radians, FNeg(CosPi))
    /\ loc' = [radians |-> cos_up(loc.radians)]
    /\ UNCHANGED <<fn, args, fpc, fret>>
    /\ UNCHANGED notCallVars

\* the end of while (radians < -3.14159265f), and the declarations
Trig_cosUpExit ==
    /\ fpc = "reduceUp"
    /\ ~Lt(loc.radians, FNeg(CosPi))
    /\ loc' = cos_enter(loc.radians)
    /\ fpc' = "series"
    /\ UNCHANGED <<fn, args, fret>>
    /\ UNCHANGED notCallVars

\* one iteration of for (int i = 2; i <= 10; i += 2)
Trig_cosTerm ==
    /\ fn = "cos"
    /\ fpc = "series"
    /\ loc.j <= 10
    /\ loc' = cos_body(loc)
    /\ UNCHANGED <<fn, args, fpc, fret>>
    /\ UNCHANGED notCallVars

\* the end of the for loop: return result;
Trig_cosReturn ==
    /\ fn = "cos"
    /\ fpc = "series"
    /\ loc.j > 10
    /\ fret' = loc.result
    /\ fpc' = "returned"
    /\ UNCHANGED <<fn, args, loc>>
    /\ UNCHANGED notCallVars

TrigNext ==
    \/ Trig_sinEnter
    \/ Trig_sinTerm
    \/ Trig_sinReturn
    \/ Trig_cosEnter
    \/ Trig_cosDown
    \/ Trig_cosDownExit
    \/ Trig_cosUp
    \/ Trig_cosUpExit
    \/ Trig_cosTerm
    \/ Trig_cosReturn

SpecTrig == TrigInit /\ [][TrigNext]_vars

\* the statements give what the functions return
TrigStepsAgree ==
    /\ Returned("sin") => fret = sin(args[1])
    /\ (Returned("cos") /\ Le(Abs(args[1]), FromInt(20))) => fret = cos(args[1])

\* what the loops of sin and cos leave behind them
TrigLoopBounds ==
    /\ Returned("sin") =>
           /\ Len(loc.terms) >= 1
           /\ \A j \in 2..Len(loc.terms) : Le(SinThreshold, Abs(loc.terms[j]))
           /\ Lt(Abs(loc.currentTerm), SinThreshold)
    /\ (fn = "cos" /\ fpc \in {"series", "returned"}) =>
           /\ Le(FNeg(CosPi), loc.radians)
           /\ Le(loc.radians, CosPi)
    /\ Returned("cos") => loc.added = 5

\* C23: for every finite input the loops of sin and cos terminate; sin sums
\* at least one term, also for |angle| < 1e-7 and for 0, and stops at the first
\* term whose magnitude is below 1e-7; the range-reduction loops of cos stop
\* with the argument in [-pi, pi], and exactly 5 series terms are then added.
\* A call in a range-reduction loop whose next statement leaves radians as it
\* is stays in that loop for ever: termination is that the next statement
\* always changes the state (in the series loops n and i grow with every
\* iteration).
C23_TrigLoopsTerminate ==
    /\ TrigLoopBounds
    /\ fpc \in {"reduceDown", "reduceUp"} => ENABLED <<TrigNext>>_vars

CosMin == [k |-> "f", m |-> -8403952, e |-> -23]

SquaredLength(a) == Add(Add(Mul(a[1], a[1]), Mul(a[2], a[2])), Mul(a[3], a[3]))

\* q and operand are of the exact reading
RotExact ==
    /\ \A j \in 1..4 : IsExact(q[j])
    /\ \A j \in 1..3 : IsExact(operand[j])

\* C26: for every quaternion q other than (0,0,0,0), of length 1 or not, and
\* every CVector3, in exact arithmetic q.rotate(vec) has the squared length of
\* vec and is the same for every nonzero multiple of q; for q = (0,0,0,0)
\* rotate returns the zero vector.
C26_RotatePreservesLength ==
    /\ (qop \in {"rotate", "rotate scaled"} /\ RotExact /\ ~QuatEq(q, QuatZero)) =>
           Eq(SquaredLength(qret), SquaredLength(operand))
    /\ (qop = "rotate scaled" /\ RotExact /\ IsExact(factor) /\ ~QuatEq(q, QuatZero)) =>
           /\ VecEq(vret, qret)
           /\ Eq(SquaredLength(vret), SquaredLength(operand))
    /\ (qop \in {"rotate", "rotate scaled"} /\ QuatEq(q, QuatZero)) =>
           VecEq(qret, <<Lit(0), Lit(0), Lit(0)>>)

\* rotate has returned for a quaternion that is not of length 1 and for a
\* multiple of it, and has turned the vector
C26_Witness ==
    /\ qop = "rotate scaled"
    /\ RotExact
    /\ IsExact(factor)
    /\ ~Eq(Quaternion_lengthSquared(q), Lit(1))
    /\ ~Eq(Quaternion_lengthSquared(q), Lit(0))
    /\ ~VecEq(qret, operand)

====
